---- MODULE Spec2Model ----
(***************************************************************************)
(* A model of the cowSolver core crate: the solver orchestrator            *)
(* (solver/engine.rs), the settlement plan (settlement/mod.rs), the        *)
(* solution scoring (solver/mod.rs), the matching engine                   *)
(* (solver/matching.rs), the routing engine (solver/routing.rs), the       *)
(* pricing engine (solver/pricing.rs), the AMM arithmetic (math/mod.rs),  *)
(* order validation (domain/orders.rs) and token amounts                   *)
(* (domain/tokens.rs).                                                     *)
(*                                                                         *)
(* Numbers.  Amounts are 256-bit integers in the source; here they are     *)
(* whole tokens (multiples of 10^18 base units) not above MaxAmount, so    *)
(* every `as_u128() as f64` conversion is exact and every f64 quotient of  *)
(* two amounts is held as the exact fraction [num, den].  f64 scores,      *)
(* thresholds and percentages are held in fixed point, in millionths       *)
(* (Micro).  A clearing price is floor(p * PriceScale); PriceScale stands  *)
(* for the source's 10^18, which exceeds TLC's 32-bit integers.            *)
(*                                                                         *)
(* Routing and AMM quotes.  Pool reserves and swap amounts are base units, *)
(* as in the source's tests.  floor(x * y / d) is computed by doubling so  *)
(* that no intermediate product leaves 32 bits.  Price impact is the exact *)
(* fraction of a percent; a route's score is the pair of its output and    *)
(* its penalty gas/10^6 + impact/100, ordered by penalty and then output,  *)
(* which is the order of output - penalty when outputs are base units of   *)
(* an 18-decimal token and penalties differ.                               *)
(*                                                                         *)
(* Pricing.  The confidence of a midpoint price is 1 - spread, clamped to  *)
(* [0, 1], in millionths with the spread rounded up.  The HashMap of       *)
(* token pairs is iterated in any order: the pair written last is chosen   *)
(* nondeterministically.                                                   *)
(*                                                                         *)
(* Word widths.  Where the width of an integer decides the outcome        *)
(* (TokenAmount's checked arithmetic, U256::as_u128) U256 is a word of     *)
(* WordBits bits and u128 a word of half as many.                          *)
(*                                                                         *)
(* Calls.  solve borrows the engine immutably; a call in flight is a       *)
(* record of its batch and locals, advanced one stage at a time, and the   *)
(* engine is the record every stage hands back.  Order identifiers are     *)
(* the positions in the batch unless a batch is built with one shared      *)
(* identifier.                                                             *)
(*                                                                         *)
(* Time.  Order.valid_to is the u32 deadline that Order declares; `now` is *)
(* one reading of the system clock per solve call.  `elapsed` is the wall  *)
(* clock since solve was entered, in ms; it advances at the two .await     *)
(* points of solve.                                                        *)
(***************************************************************************)
EXTENDS Integers, Sequences, FiniteSets, TLC

\* ------------------------------------------------------------------ bounds
MaxAmount == 2
MaxOrders == 3
MaxStageMs == 1
MaxCands == 3
MaxIds == 4
PriceScale == 1000
Now == 2
MaxPools == 3
MaxHops == 3
MaxPriced == 2
MaxItems == 2
MaxIn == 4
MaxReserve == 4
WordBits == 4
MaxCalls == 2
MaxWide == 2

\* one f64 unit in fixed point
Micro == 1000 * 1000

Tokens == {"TA", "TB"}

VARIABLES
    \* SolverEngine and one solve call
    config, orders, now, valid_orders, matches, settlement, result, pc, elapsed,
    \* MatchingEngine and one call of find_matches or select_optimal_matches
    engine, match_input, direct_pairs, discovered, found, candidates, selected, mpc,
    \* RoutingEngine and one call of find_best_route
    router, pools, pool_index, query, route, rpc,
    \* one evaluation of the two constant-product output functions
    quote,
    \* PricingEngine, a price map and one call of validate_prices
    pricer, price_orders, prices, price_source, validation, ppc,
    \* a SettlementPlan under construction and a Solution being scored
    plan, gas_before, scored, threshold, admitted,
    \* one call of Order::validate
    checked,
    \* one round of TokenAmount arithmetic
    arith,
    \* a SolverEngine shared by several solve calls in flight
    shared, calls,
    \* one solve or find_matches call on amounts of the full 256-bit range
    wide

solver_vars == <<config, orders, now, valid_orders, matches, settlement, result, pc, elapsed>>

matching_vars ==
    <<engine, match_input, direct_pairs, discovered, found, candidates, selected, mpc>>

routing_vars == <<router, pools, pool_index, query, route, rpc>>

amm_vars == <<quote>>

pricing_vars == <<pricer, price_orders, prices, price_source, validation, ppc>>

plan_vars == <<plan, gas_before, scored, threshold, admitted>>

order_vars == <<checked>>

token_vars == <<arith>>

conc_vars == <<shared, calls>>

wide_vars == <<wide>>

vars == <<solver_vars, matching_vars, routing_vars, amm_vars, pricing_vars, plan_vars,
          order_vars, token_vars, conc_vars, wide_vars>>

\* ------------------------------------------------------------ configuration
\* SolverConfig::default()
DefaultConfig ==
    [ max_gas_price        |-> 100,
      min_profit_threshold |-> Micro \div 100,
      max_slippage         |-> Micro \div 2,
      enable_cow_matching  |-> TRUE,
      enable_amm_routing   |-> TRUE,
      enable_cross_chain   |-> TRUE,
      timeout_ms           |-> 5000 ]

\* The configurations an engine is constructed with: the default one, one that
\* admits any score above -1.0 within a budget of 1 ms, and one with CoW
\* matching switched off.
Configs ==
    { DefaultConfig,
      [DefaultConfig EXCEPT !.min_profit_threshold = 0 - Micro, !.timeout_ms = 1],
      [DefaultConfig EXCEPT !.enable_cow_matching = FALSE] }

\* ------------------------------------------------------------------ orders
\* An order of the batch, without its identifier.
MkOrder(st, bt, sa, ba, vt, status) ==
    [ sell_token |-> st, buy_token |-> bt, sell_amount |-> sa, buy_amount |-> ba,
      valid_to |-> vt, fee_amount |-> 1000, status |-> status ]

\* Open, unexpired orders with non-zero amounts; one side of each is one token.
LiveOrders ==
    { o \in [ sell_token : Tokens, buy_token : Tokens, sell_amount : 1..MaxAmount,
              buy_amount : 1..MaxAmount, valid_to : {Now}, fee_amount : {1000},
              status : {"Open"} ] :
        o.sell_token # o.buy_token /\ (o.sell_amount = 1 \/ o.buy_amount = 1) }

\* Orders the filter has to drop: cancelled, expired, zero sell, zero buy.
DeadOrders ==
    { MkOrder("TA", "TB", 1, 1, Now, "Cancelled"),
      MkOrder("TA", "TB", 1, 1, Now - 1, "Open"),
      MkOrder("TA", "TB", 0, 1, Now, "Open"),
      MkOrder("TA", "TB", 1, 0, Now, "Open") }

OrderUniverse == LiveOrders \cup DeadOrders

\* two orders that close a ring TA -> TB -> TC -> TA with an order selling TA
\* for TB
RingLegs ==
    { MkOrder("TB", "TC", 1, 1, Now, "Open"), MkOrder("TC", "TA", 1, 1, Now, "Open") }

\* the orders find_matches is called on
MatchOrders == LiveOrders \cup RingLegs

\* Order.id: the k-th order of a batch carries the identifier k.
WithId(o, k) ==
    [ id |-> k, sell_token |-> o.sell_token, buy_token |-> o.buy_token,
      sell_amount |-> o.sell_amount, buy_amount |-> o.buy_amount,
      valid_to |-> o.valid_to, fee_amount |-> o.fee_amount, status |-> o.status ]

\* the batch handed to solve: the chosen orders, numbered in input order
Batch(b) == [k \in DOMAIN b |-> WithId(b[k], k)]

\* --------------------------------------------------------------- f64 values
\* x as f64 / y as f64, for amounts that f64 holds exactly
Ratio(x, y) == [num |-> x, den |-> y]

Leq(p, q) == p.num * q.den <= q.num * p.den

RECURSIVE ISqrtBetween(_, _, _)
ISqrtBetween(n, lo, hi) ==
    IF lo >= hi THEN lo
    ELSE LET mid == (lo + hi + 1) \div 2
         IN  IF mid * mid <= n THEN ISqrtBetween(n, mid, hi)
             ELSE ISqrtBetween(n, lo, mid - 1)

\* floor(sqrt(n))
ISqrt(n) == ISqrtBetween(n, 0, IF n < 46340 THEN n ELSE 46340)

\* ------------------------------------------------------- SolverEngine: filter
validate_order_strict_expiry(order, t) ==
    /\ order.status = "Open"
    /\ ~(order.valid_to <= t)
    /\ ~(order.sell_amount = 0 \/ order.buy_amount = 0)

validate_order(order, t) ==
    /\ order.status = "Open"
    /\ ~(order.valid_to < t)
    /\ ~(order.sell_amount = 0 \/ order.buy_amount = 0)

validate_orders(os, t) == SelectSeq(os, LAMBDA o : validate_order(o, t))

\* -------------------------------------------------- SolverEngine: CoW matches
RECURSIVE IndexPairsFrom(_, _, _)
IndexPairsFrom(i, j, n) ==
    IF i >= n THEN << >>
    ELSE IF j > n THEN IndexPairsFrom(i + 1, i + 2, n)
    ELSE << <<i, j>> >> \o IndexPairsFrom(i, j + 1, n)

\* for (i, a) in orders.enumerate() { for (j, b) in orders.enumerate().skip(i + 1)
IndexPairs(n) == IndexPairsFrom(1, 2, n)

is_price_compatible(cfg, order_a, order_b) ==
    LET price_a == Ratio(order_a.buy_amount, order_a.sell_amount)
        price_b == Ratio(order_b.sell_amount, order_b.buy_amount)
        \* tolerance = 1.0 + max_slippage / 100.0, as a fraction
        tol == Ratio(100 * Micro + cfg.max_slippage, 100 * Micro)
    IN  price_a.num * price_b.den * tol.den <= price_b.num * tol.num * price_a.den

find_cow_matches(cfg, os) ==
    IF ~cfg.enable_cow_matching THEN << >>
    ELSE SelectSeq(IndexPairs(Len(os)),
                   LAMBDA m : /\ os[m[1]].sell_token = os[m[2]].buy_token
                              /\ os[m[1]].buy_token = os[m[2]].sell_token
                              /\ is_price_compatible(cfg, os[m[1]], os[m[2]]))

\* ------------------------------------------------------------ SettlementPlan
EmptySettlement ==
    [ trades |-> << >>, interactions |-> << >>, clearing_prices |-> << >>,
      post_hooks |-> << >> ]

add_trade(s, trade) == [s EXCEPT !.trades = Append(@, trade)]

set_clearing_price(s, token, price) ==
    [s EXCEPT !.clearing_prices =
        [t \in (DOMAIN @) \cup {token} |-> IF t = token THEN price ELSE @[t]]]

validate_requiring_interactions(s) == Len(s.trades) # 0 /\ Len(s.interactions) # 0

\* Ok(()) iff TRUE
validate(s) == Len(s.trades) # 0

estimate_gas_without_post_hooks(s) ==
    21000 + Len(s.trades) * 50000 + Len(s.interactions) * 100000

estimate_gas(s) ==
    21000 + Len(s.trades) * 50000 + Len(s.interactions) * 100000
          + Len(s.post_hooks) * 150000

\* ------------------------------------------------- SolverEngine: settlement
calculate_clearing_price(order_a, order_b) ==
    LET price_a == Ratio(order_a.buy_amount, order_a.sell_amount)
        price_b == Ratio(order_b.sell_amount, order_b.buy_amount)
    IN  ISqrt((price_a.num * price_b.num * PriceScale * PriceScale)
                 \div (price_a.den * price_b.den))

MkTrade_amounts_swapped(order) ==
    [ order_id |-> order.id, executed_sell_amount |-> order.buy_amount,
      executed_buy_amount |-> order.sell_amount, fee |-> order.fee_amount ]

MkTrade(order) ==
    [ order_id |-> order.id, executed_sell_amount |-> order.sell_amount,
      executed_buy_amount |-> order.buy_amount, fee |-> order.fee_amount ]

RECURSIVE build_trades(_, _, _)
build_trades(os, ms, s) ==
    IF ms = << >> THEN s
    ELSE LET order_a == os[Head(ms)[1]]
             order_b == os[Head(ms)[2]]
             clearing_price == calculate_clearing_price(order_a, order_b)
             s1 == set_clearing_price(s, order_a.sell_token, clearing_price)
             s2 == set_clearing_price(s1, order_a.buy_token, clearing_price)
             s3 == add_trade(s2, MkTrade(order_a))
             s4 == add_trade(s3, MkTrade(order_b))
         IN  build_trades(os, Tail(ms), s4)

build_settlement_with_amm_interaction(cfg, os, ms) ==
    LET s == build_trades(os, ms, EmptySettlement)
    IN  IF cfg.enable_amm_routing
        THEN [s EXCEPT !.interactions =
                 << [ target |-> 0, call_data |-> << >>, value |-> 0,
                      interaction_type |-> "UniswapV2Swap" ] >>]
        ELSE s

\* the AMM routing branch only logs
build_settlement(cfg, os, ms) == build_trades(os, ms, EmptySettlement)

FindOrder(os, order_id) ==
    LET hits == { k \in 1..Len(os) : os[k].id = order_id }
    IN  IF hits = {} THEN 0 ELSE CHOOSE k \in hits : \A h \in hits : k <= h

RECURSIVE surplus_of_trades(_, _)
surplus_of_trades(os, trades) ==
    IF trades = << >> THEN 0
    ELSE LET trade == Head(trades)
             k == FindOrder(os, trade.order_id)
             gain == IF k # 0 /\ trade.executed_buy_amount > os[k].buy_amount
                     THEN (trade.executed_buy_amount - os[k].buy_amount) * Micro
                     ELSE 0
         IN  gain + surplus_of_trades(os, Tail(trades))

RECURSIVE executed_volume(_)
executed_volume(trades) ==
    IF trades = << >> THEN 0
    ELSE Head(trades).executed_buy_amount * Micro + executed_volume(Tail(trades))

calculate_surplus_counting_volume(os, s) == executed_volume(s.trades)

calculate_surplus(os, s) == surplus_of_trades(os, s.trades)

\* ------------------------------------------------------------------ Solution
NoSolution ==
    [ orders |-> << >>, settlement |-> EmptySettlement, gas_cost |-> 0,
      surplus |-> 0, score |-> 0 ]

calculate_score_plus_gas(sol) == [sol EXCEPT !.score = sol.surplus + (sol.gas_cost \div 1000)]

\* score = surplus - gas_cost as f64 * 1e-9
calculate_score(sol) == [sol EXCEPT !.score = sol.surplus - (sol.gas_cost \div 1000)]

is_profitable_flipped(sol, min_threshold) == sol.score <= min_threshold

is_profitable(sol, min_threshold) == sol.score >= min_threshold

\* ------------------------------------------------------------ MatchingEngine
\* MatchingEngine::default() and an engine with a higher quality threshold
DefaultEngine == [max_ring_size |-> 4, min_quality_score |-> Micro \div 10]

Engines == { DefaultEngine, [DefaultEngine EXCEPT !.min_quality_score = 350000] }

Min(x, y) == IF x <= y THEN x ELSE y

Max(x, y) == IF x >= y THEN x ELSE y

\* floor(10^6 * ln n) for n in 1..16
LnMicro(n) ==
    << 0, 693147, 1098612, 1386294, 1609437, 1791759, 1945910, 2079441, 2197224,
       2302585, 2397895, 2484906, 2564949, 2639057, 2708050, 2772588 >>[n]

has_price_overlap_uninverted(order_a, order_b) ==
    Leq(Ratio(order_a.buy_amount, order_a.sell_amount),
        Ratio(order_b.buy_amount, order_b.sell_amount))

has_price_overlap(order_a, order_b) ==
    LET price_a == Ratio(order_a.buy_amount, order_a.sell_amount)
        price_b == Ratio(order_b.sell_amount, order_b.buy_amount)
    IN  Leq(price_a, price_b)

is_direct_match(order_a, order_b) ==
    IF order_a.sell_token # order_b.buy_token THEN FALSE
    ELSE IF order_a.buy_token # order_b.sell_token THEN FALSE
    ELSE has_price_overlap(order_a, order_b)

calculate_pair_quality(order_a, order_b) ==
    LET price_a == Ratio(order_a.buy_amount, order_a.sell_amount)
        price_b == Ratio(order_b.sell_amount, order_b.buy_amount)
        price_overlap ==
            IF price_b.num > 0
            THEN Micro - Min((Micro * price_a.num * price_b.den)
                                 \div (price_a.den * price_b.num), Micro)
            ELSE 0
        volume_a == order_a.sell_amount
        volume_b == order_b.sell_amount
        total_volume == volume_a + volume_b
        \* (total_volume / 1e18).ln().max(0.0) / 10.0
        volume_score == Max(LnMicro(total_volume), 0) \div 10
        balance_score ==
            Min((Micro * Min(volume_a, volume_b)) \div Max(volume_a, volume_b), Micro)
        quality == (price_overlap * 4 + volume_score * 3 + balance_score * 3) \div 10
    IN  Min(Max(quality, 0), Micro)

estimate_pair_surplus(order_a, order_b) ==
    LET price_a == Ratio(order_a.buy_amount, order_a.sell_amount)
        price_b == Ratio(order_b.sell_amount, order_b.buy_amount)
        volume == Min(order_a.sell_amount, order_b.buy_amount)
    IN  IF Leq(price_b, price_a) THEN 0
        ELSE (Micro * volume * (price_b.num * price_a.den - price_a.num * price_b.den))
                 \div (price_b.den * price_a.den)

MkPairMatch(order_a, order_b) ==
    [ orders |-> <<order_a.id, order_b.id>>,
      match_type |-> "DirectPair",
      quality_score |-> calculate_pair_quality(order_a, order_b),
      estimated_surplus |-> estimate_pair_surplus(order_a, order_b) ]

RECURSIVE pair_matches(_, _)
pair_matches(os, ps) ==
    IF ps = << >> THEN << >>
    ELSE (IF is_direct_match(os[Head(ps)[1]], os[Head(ps)[2]])
          THEN << MkPairMatch(os[Head(ps)[1]], os[Head(ps)[2]]) >>
          ELSE << >>) \o pair_matches(os, Tail(ps))

find_direct_pairs(os) == pair_matches(os, IndexPairs(Len(os)))

\* sell_token -> the indices of the orders selling it, in input order
build_token_graph(os) ==
    [ t \in { os[k].sell_token : k \in DOMAIN os } |->
        SelectSeq([k \in DOMAIN os |-> k], LAMBDA k : os[k].sell_token = t) ]

\* the cycle search is left unimplemented: it returns no cycle
find_cycles(graph, max_size) == << >>

calculate_ring_quality(os, cycle) ==
    LET n == Len(cycle)
        \* 1 / sqrt(n)
        size_score == 1000 * ISqrt(Micro \div n)
        num[k \in 0..n] == IF k = 0 THEN 1 ELSE num[k - 1] * os[cycle[k]].buy_amount
        den[k \in 0..n] == IF k = 0 THEN 1 ELSE den[k - 1] * os[cycle[k]].sell_amount
        price_score ==
            IF num[n] >= den[n]
            THEN Min((Micro * (num[n] - den[n])) \div den[n], Micro)
            ELSE 0
    IN  (size_score + price_score) \div 2

estimate_ring_surplus(os, cycle) ==
    LET sum[k \in 0..Len(cycle)] ==
            IF k = 0 THEN 0 ELSE sum[k - 1] + os[cycle[k]].sell_amount * (Micro \div 1000)
    IN  sum[Len(cycle)]

\* Some(match) is <<match>>, None is << >>
validate_ring(os, cycle) ==
    IF Len(cycle) < 3 THEN << >>
    ELSE IF \E i \in DOMAIN cycle :
                os[cycle[i]].buy_token # os[cycle[(i % Len(cycle)) + 1]].sell_token
    THEN << >>
    ELSE << [ orders |-> [i \in DOMAIN cycle |-> os[cycle[i]].id],
              match_type |-> "Ring",
              quality_score |-> calculate_ring_quality(os, cycle),
              estimated_surplus |-> estimate_ring_surplus(os, cycle) ] >>

RECURSIVE ring_matches(_, _)
ring_matches(os, cycles) ==
    IF cycles = << >> THEN << >>
    ELSE validate_ring(os, Head(cycles)) \o ring_matches(os, Tail(cycles))

find_rings(e, os) ==
    IF Len(os) < 3 THEN << >>
    ELSE ring_matches(os, find_cycles(build_token_graph(os), e.max_ring_size))

quality_order_ascending(a, b) == a.quality_score <= b.quality_score

\* b.quality_score.partial_cmp(&a.quality_score) is not Greater: a stays before b
quality_order(a, b) == a.quality_score >= b.quality_score

RECURSIVE insert_sorted(_, _)
insert_sorted(s, m) ==
    IF s = << >> THEN << m >>
    ELSE IF quality_order(Head(s), m) THEN << Head(s) >> \o insert_sorted(Tail(s), m)
    ELSE << m >> \o s

RECURSIVE sort_into(_, _)
sort_into(ms, acc) ==
    IF ms = << >> THEN acc ELSE sort_into(Tail(ms), insert_sorted(acc, Head(ms)))

\* Vec::sort_by: a stable sort
sort_by_quality(ms) == sort_into(ms, << >>)

retain_min_quality(e, ms) == SelectSeq(ms, LAMBDA m : m.quality_score >= e.min_quality_score)

find_matches(e, os) ==
    retain_min_quality(e, sort_by_quality(find_direct_pairs(os) \o find_rings(e, os)))

Range(s) == { s[k] : k \in DOMAIN s }

mark_used_first_only(used_orders, m) == used_orders \cup { m.orders[1] }

mark_used(used_orders, m) == used_orders \cup Range(m.orders)

RECURSIVE select_from(_, _, _)
select_from(ms, used_orders, sel) ==
    IF ms = << >> THEN sel
    ELSE LET match_candidate == Head(ms)
             has_overlap == \E order_id \in Range(match_candidate.orders) :
                                order_id \in used_orders
         IN  IF ~has_overlap
             THEN select_from(Tail(ms), mark_used(used_orders, match_candidate),
                              Append(sel, match_candidate))
             ELSE select_from(Tail(ms), used_orders, sel)

select_optimal_matches(ms) == select_from(ms, {}, << >>)

\* candidate lists handed to select_optimal_matches by a caller
IdLists == { <<i, j>> : i \in 1..MaxIds, j \in 1..MaxIds } \cup { <<1, 2, 3>> }

CandidateMatches ==
    { [ orders |-> ids,
        match_type |-> IF Len(ids) = 2 THEN "DirectPair" ELSE "Ring",
        quality_score |-> Micro \div 2,
        estimated_surplus |-> 0 ] : ids \in { l \in IdLists : Len(l) = 3 \/ l[1] < l[2] } }

\* ------------------------------------------------------------- wide integers
RECURSIVE Gcd(_, _)
Gcd(x, y) == IF y = 0 THEN x ELSE Gcd(y, x % y)

\* a fraction in lowest terms; 0 is 0/1
Reduce(p) ==
    IF p.num = 0 THEN Ratio(0, 1)
    ELSE Ratio(p.num \div Gcd(p.num, p.den), p.den \div Gcd(p.num, p.den))

RatioAdd(p, q) == Reduce(Ratio(p.num * q.den + q.num * p.den, p.den * q.den))

Lt(p, q) == ~Leq(q, p)

\* quotient and remainder of x * y by d, for d < 2^30, by doubling: a 256-bit
\* product that is wider than 32 bits is never formed
RECURSIVE MulDivMod(_, _, _)
MulDivMod(x, y, d) ==
    IF y = 0 THEN [q |-> 0, r |-> 0]
    ELSE LET h  == MulDivMod(x, y \div 2, d)
             c2 == IF 2 * h.r >= d THEN 1 ELSE 0
             r2 == 2 * h.r - c2 * d
             r3 == r2 + (y % 2) * (x % d)
             c3 == IF r3 >= d THEN 1 ELSE 0
         IN  [ q |-> 2 * h.q + c2 + (y % 2) * (x \div d) + c3, r |-> r3 - c3 * d ]

\* floor(x * y / d)
MulDivFloor(x, y, d) == MulDivMod(x, y, d).q

\* ------------------------------------------------------------- RoutingEngine
\* Amounts and reserves of the routing engine are base units, as in its tests.
\* A price impact is the exact fraction of percent; a route score
\*     output / 10^18 - gas / 10^6 - impact / 100
\* is the pair (output, penalty) with penalty = gas / 10^6 + impact / 100 an
\* exact fraction: two penalties that differ, differ by more than any
\* output / 10^18 of the catalogue, so scores compare by penalty first and by
\* output second.
RouteTokens == {"TA", "TB", "TC"}

MkPool(pool_type, token_a, token_b, reserve_a, reserve_b, fee_bps, gas_cost) ==
    [ address |-> 0, pool_type |-> pool_type, token_a |-> token_a, token_b |-> token_b,
      reserve_a |-> reserve_a, reserve_b |-> reserve_b, fee_bps |-> fee_bps,
      gas_cost |-> gas_cost ]

\* the pools a catalogue is filled from: a shallow cheap pool and a deep
\* expensive pool for (TA, TB), pools for (TB, TC) and (TA, TC), a stable-swap
\* pool and an empty pool
PoolShapes ==
    { MkPool("UniswapV2", "TA", "TB", 100, 100, 30, 100000),
      MkPool("UniswapV2", "TA", "TB", 1000, 1000, 30, 300000),
      MkPool("UniswapV2", "TB", "TC", 1000, 2000, 30, 100000),
      MkPool("ConstantProduct", "TC", "TA", 1000, 1000, 30, 200000),
      MkPool("Curve", "TB", "TC", 1000, 1000, 4, 100000),
      MkPool("UniswapV2", "TB", "TC", 0, 0, 30, 100000) }

\* RoutingEngine::new(max_hops, max_price_impact)
NewRouter(max_hops, max_price_impact) ==
    [ max_hops |-> max_hops, max_price_impact |-> max_price_impact ]

\* RoutingEngine::default(): 3 hops, 5 percent
DefaultRouter == NewRouter(3, Ratio(5, 1))

\* pool_index.entry(key).or_insert_with(Vec::new).push(idx)
index_push(index, key, idx) ==
    [ k \in (DOMAIN index) \cup {key} |->
        IF k = key
        THEN (IF key \in DOMAIN index THEN Append(index[key], idx) ELSE << idx >>)
        ELSE index[k] ]

\* the pool index after add_pool; pools are numbered from 1
add_pool_index(index, pool, idx) ==
    index_push(index_push(index, <<pool.token_a, pool.token_b>>, idx),
               <<pool.token_b, pool.token_a>>, idx)

calculate_constant_product_output_no_fee(amount_in, reserve_in, reserve_out, fee_bps) ==
    IF amount_in = 0 \/ reserve_in = 0 \/ reserve_out = 0 THEN 0
    ELSE MulDivFloor(amount_in * 10000, reserve_out, reserve_in * 10000 + amount_in * 10000)

calculate_constant_product_output(amount_in, reserve_in, reserve_out, fee_bps) ==
    IF amount_in = 0 \/ reserve_in = 0 \/ reserve_out = 0 THEN 0
    ELSE LET amount_in_with_fee == amount_in * (10000 - fee_bps)
             denominator == reserve_in * 10000 + amount_in_with_fee
         IN  IF denominator = 0 THEN 0
             ELSE MulDivFloor(amount_in_with_fee, reserve_out, denominator)

calculate_stable_swap_output(amount_in, reserve_in, reserve_out, fee_bps) ==
    LET fee_multiplier == 10000 - fee_bps
        amount_out == (amount_in * fee_multiplier) \div 10000
    IN  Min(amount_out, (reserve_out * 99) \div 100)

reserve_in_of(pool, token_in) ==
    IF token_in = pool.token_a THEN pool.reserve_a ELSE pool.reserve_b

reserve_out_of(pool, token_in) ==
    IF token_in = pool.token_a THEN pool.reserve_b ELSE pool.reserve_a

calculate_output(pool, token_in, amount_in) ==
    IF pool.pool_type = "Curve"
    THEN calculate_stable_swap_output(amount_in, reserve_in_of(pool, token_in),
                                      reserve_out_of(pool, token_in), pool.fee_bps)
    ELSE calculate_constant_product_output(amount_in, reserve_in_of(pool, token_in),
                                           reserve_out_of(pool, token_in), pool.fee_bps)

\* percent, as an exact fraction
calculate_price_impact(pool, token_in, amount_in) ==
    IF reserve_in_of(pool, token_in) = 0 THEN Ratio(100, 1)
    ELSE LET impact == Reduce(Ratio(amount_in * 100, reserve_in_of(pool, token_in)))
         IN  IF Leq(impact, Ratio(100, 1)) THEN impact ELSE Ratio(100, 1)

calculate_route_score(output_amount, gas_cost, price_impact) ==
    [ output  |-> output_amount,
      penalty |-> RatioAdd(Reduce(Ratio(gas_cost, Micro)),
                           Reduce(Ratio(price_impact.num, price_impact.den * 100))) ]

\* a.score > b.score
ScoreGt(a, b) ==
    \/ Lt(a.penalty, b.penalty)
    \/ a.penalty = b.penalty /\ a.output > b.output

\* Some(route) is <<route>>, None is << >>
MkRoute(route_pools, path, output_amount, gas_cost, price_impact) ==
    [ pools |-> route_pools, path |-> path, output_amount |-> output_amount,
      gas_cost |-> gas_cost, price_impact |-> price_impact,
      score |-> calculate_route_score(output_amount, gas_cost, price_impact) ]

index_get(index, key) == IF key \in DOMAIN index THEN index[key] ELSE << >>

\* the loop of find_direct_route over the pools indexed under (token_in, token_out)
RECURSIVE direct_scan(_, _, _, _, _, _)
direct_scan(ps, pool_indices, token_in, token_out, amount_in, best_route) ==
    IF pool_indices = << >> THEN best_route
    ELSE LET pool == ps[Head(pool_indices)]
             output_amount == calculate_output(pool, token_in, amount_in)
             r == MkRoute(<< pool >>, <<token_in, token_out>>, output_amount,
                          pool.gas_cost, calculate_price_impact(pool, token_in, amount_in))
         IN  IF output_amount = 0
             THEN direct_scan(ps, Tail(pool_indices), token_in, token_out, amount_in,
                              best_route)
             ELSE IF best_route = << >> \/ ScoreGt(r.score, best_route[1].score)
             THEN direct_scan(ps, Tail(pool_indices), token_in, token_out, amount_in,
                              << r >>)
             ELSE direct_scan(ps, Tail(pool_indices), token_in, token_out, amount_in,
                              best_route)

find_direct_route(ps, index, token_in, token_out, amount_in) ==
    direct_scan(ps, index_get(index, <<token_in, token_out>>), token_in, token_out,
                amount_in, << >>)

\* token -> its neighbours, one entry per pool, in catalogue order
RECURSIVE graph_of(_, _)
graph_of(ps, graph) ==
    IF ps = << >> THEN graph
    ELSE graph_of(Tail(ps),
                  index_push(index_push(graph, Head(ps).token_a, Head(ps).token_b),
                             Head(ps).token_b, Head(ps).token_a))

routing_build_token_graph(ps) == graph_of(ps, << >>)

\* the loop of find_paths_bfs: the queue is popped at its end
RECURSIVE paths_loop(_, _, _, _, _)
paths_loop(graph, end, max_depth, queue, paths) ==
    IF queue = << >> THEN paths
    ELSE LET current == queue[Len(queue)][1]
             path == queue[Len(queue)][2]
             rest == SubSeq(queue, 1, Len(queue) - 1)
             fresh == SelectSeq(index_get(graph, current),
                                LAMBDA n : \A k \in DOMAIN path : path[k] # n)
         IN  IF Len(path) > max_depth
             THEN paths_loop(graph, end, max_depth, rest, paths)
             ELSE IF current = end /\ Len(path) > 1
             THEN paths_loop(graph, end, max_depth, rest, Append(paths, path))
             ELSE paths_loop(graph, end, max_depth,
                             rest \o [k \in DOMAIN fresh |->
                                         <<fresh[k], Append(path, fresh[k])>>],
                             paths)

find_paths_bfs(graph, start, end, max_depth) ==
    paths_loop(graph, end, max_depth, << <<start, <<start>> >> >>, << >>)

\* the pool of largest output for a hop: [pool index or 0, its output]
RECURSIVE best_pool_scan(_, _, _, _, _)
best_pool_scan(ps, pool_indices, token_in, current_amount, best) ==
    IF pool_indices = << >> THEN best
    ELSE LET output == calculate_output(ps[Head(pool_indices)], token_in, current_amount)
         IN  best_pool_scan(ps, Tail(pool_indices), token_in, current_amount,
                            IF output > best.output
                            THEN [pool |-> Head(pool_indices), output |-> output]
                            ELSE best)

\* the hops i.. of evaluate_path
RECURSIVE eval_hops(_, _, _, _, _)
eval_hops(ps, index, path, i, acc) ==
    IF i > Len(path) - 1
    THEN << MkRoute(acc.pools, path, acc.current_amount, acc.total_gas,
                    acc.total_price_impact) >>
    ELSE IF <<path[i], path[i + 1]>> \notin DOMAIN index THEN << >>
    ELSE LET best == best_pool_scan(ps, index[<<path[i], path[i + 1]>>], path[i],
                                    acc.current_amount, [pool |-> 0, output |-> 0])
         IN  IF best.pool = 0 THEN << >>
             ELSE eval_hops(ps, index, path, i + 1,
                    [ pools |-> Append(acc.pools, ps[best.pool]),
                      current_amount |-> best.output,
                      total_gas |-> acc.total_gas + ps[best.pool].gas_cost,
                      total_price_impact |->
                          RatioAdd(acc.total_price_impact,
                                   calculate_price_impact(ps[best.pool], path[i],
                                                          acc.current_amount)) ])

evaluate_path(ps, index, path, amount_in) ==
    IF Len(path) < 2 THEN << >>
    ELSE eval_hops(ps, index, path, 1,
                   [ pools |-> << >>, current_amount |-> amount_in, total_gas |-> 0,
                     total_price_impact |-> Ratio(0, 1) ])

RECURSIVE evaluate_paths(_, _, _, _)
evaluate_paths(ps, index, paths, amount_in) ==
    IF paths = << >> THEN << >>
    ELSE evaluate_path(ps, index, Head(paths), amount_in)
             \o evaluate_paths(ps, index, Tail(paths), amount_in)

find_multi_hop_routes(r, ps, index, token_in, token_out, amount_in) ==
    evaluate_paths(ps, index,
                   find_paths_bfs(routing_build_token_graph(ps), token_in, token_out,
                                  r.max_hops),
                   amount_in)

find_all_routes_unfiltered(r, ps, index, token_in, token_out, amount_in) ==
    find_direct_route(ps, index, token_in, token_out, amount_in)
        \o (IF r.max_hops > 1
            THEN find_multi_hop_routes(r, ps, index, token_in, token_out, amount_in)
            ELSE << >>)

find_all_routes(r, ps, index, token_in, token_out, amount_in) ==
    LET routes ==
            find_direct_route(ps, index, token_in, token_out, amount_in)
                \o (IF r.max_hops > 1
                    THEN find_multi_hop_routes(r, ps, index, token_in, token_out, amount_in)
                    ELSE << >>)
    IN  SelectSeq(routes, LAMBDA x : Leq(x.price_impact, r.max_price_impact))

\* Iterator::max_by: of several maximal routes the last one is returned
RECURSIVE max_by_score(_, _)
max_by_score(routes, best) ==
    IF routes = << >> THEN best
    ELSE max_by_score(Tail(routes),
                      IF ScoreGt(best.score, Head(routes).score) THEN best
                      ELSE Head(routes))

find_best_route(r, ps, index, token_in, token_out, amount_in) ==
    LET routes == find_all_routes(r, ps, index, token_in, token_out, amount_in)
    IN  IF routes = << >> THEN << >>
        ELSE << max_by_score(Tail(routes), Head(routes)) >>

\* ---------------------------------------------------------------- math utilities
calculate_amm_output_fee_not_applied(amount_in, reserve_in, reserve_out, fee_bps) ==
    IF reserve_in = 0 \/ reserve_out = 0 THEN << >>
    ELSE << (amount_in * reserve_out) \div (reserve_in + amount_in) >>

\* calculate_amm_output: Some(amount) is <<amount>>, None is << >>
calculate_amm_output(amount_in, reserve_in, reserve_out, fee_bps) ==
    IF reserve_in = 0 \/ reserve_out = 0 THEN << >>
    ELSE LET fee_multiplier == 10000 - fee_bps
             amount_in_with_fee == (amount_in * fee_multiplier) \div 10000
             numerator == amount_in_with_fee * reserve_out
             denominator == reserve_in + amount_in_with_fee
         IN  << numerator \div denominator >>

\* ------------------------------------------------------------- PricingEngine
\* PricingEngine::default(): MidPoint, min_confidence 0.5
DefaultPricer == [ strategy |-> "MidPoint", min_confidence |-> Micro \div 2 ]

\* the engines validate_prices is called on
Pricers == { DefaultPricer, [DefaultPricer EXCEPT !.min_confidence = (9 * Micro) \div 10] }

MkClearingPrice(token, price, confidence) ==
    [ token |-> token, price |-> price, confidence |-> confidence ]

\* the (sell_token, buy_token) groups of the orders
token_pairs(os) == { <<os[k].sell_token, os[k].buy_token>> : k \in DOMAIN os }

limit_prices(os, pair) ==
    { Ratio(os[k].buy_amount, os[k].sell_amount) :
        k \in { j \in DOMAIN os : <<os[j].sell_token, os[j].buy_token>> = pair } }

CeilDiv(x, y) == (x + y - 1) \div y

\* the ClearingPrice one group inserts under its sell token
midpoint_price(os, pair) ==
    LET min_price == CHOOSE p \in limit_prices(os, pair) :
                         \A q \in limit_prices(os, pair) : Leq(p, q)
        max_price == CHOOSE p \in limit_prices(os, pair) :
                         \A q \in limit_prices(os, pair) : Leq(q, p)
        mid_price == Ratio(min_price.num * max_price.den + max_price.num * min_price.den,
                           2 * min_price.den * max_price.den)
        \* (max_price - min_price) / mid_price
        spread == Ratio((max_price.num * min_price.den - min_price.num * max_price.den)
                            * mid_price.den,
                        min_price.den * max_price.den * mid_price.num)
    IN  MkClearingPrice(pair[1],
                        (mid_price.num * PriceScale) \div mid_price.den,
                        Max(Micro - Min(CeilDiv(spread.num * Micro, spread.den), Micro), 0))

\* The groups are visited in the iteration order of a HashMap, and each insert
\* replaces the price its sell token had: last[t] is the buy token of the
\* group of sell token t that is visited last.
group_orders(os) ==
    { last \in [ { p[1] : p \in token_pairs(os) } -> { p[2] : p \in token_pairs(os) } ] :
        \A t \in DOMAIN last : <<t, last[t]>> \in token_pairs(os) }

calculate_midpoint_prices(os, last) ==
    [ t \in DOMAIN last |-> midpoint_price(os, <<t, last[t]>>) ]

calculate_clearing_prices(pe, os, last) == calculate_midpoint_prices(os, last)

ValidationOk == [ ok |-> TRUE, error |-> "none", order |-> 0 ]

ValidationErr(error, k) == [ ok |-> FALSE, error |-> error, order |-> k ]

\* the checks of validate_prices on one order
validate_order_prices_unchecked_buy(pe, ps, order, k) ==
    IF order.sell_token \notin DOMAIN ps
    THEN ValidationErr("Missing price for sell token", k)
    ELSE IF ps[order.sell_token].confidence < pe.min_confidence
    THEN ValidationErr("Low confidence for sell token", k)
    ELSE IF order.buy_token \in DOMAIN ps
            /\ order.sell_amount * ps[order.sell_token].price
                   < order.buy_amount * ps[order.buy_token].price
    THEN ValidationErr("Clearing prices don't satisfy order", k)
    ELSE ValidationOk

validate_order_prices(pe, ps, order, k) ==
    IF order.sell_token \notin DOMAIN ps
    THEN ValidationErr("Missing price for sell token", k)
    ELSE IF order.buy_token \notin DOMAIN ps
    THEN ValidationErr("Missing price for buy token", k)
    ELSE IF ps[order.sell_token].confidence < pe.min_confidence
    THEN ValidationErr("Low confidence for sell token", k)
    ELSE IF ps[order.buy_token].confidence < pe.min_confidence
    THEN ValidationErr("Low confidence for buy token", k)
    ELSE IF order.sell_amount * ps[order.sell_token].price
                < order.buy_amount * ps[order.buy_token].price
    THEN ValidationErr("Clearing prices don't satisfy order", k)
    ELSE ValidationOk

\* the loop of validate_prices from order k on: the first failure is returned
RECURSIVE validate_from(_, _, _, _)
validate_from(pe, ps, os, k) ==
    IF k > Len(os) THEN ValidationOk
    ELSE IF ~validate_order_prices(pe, ps, os[k], k).ok
    THEN validate_order_prices(pe, ps, os[k], k)
    ELSE validate_from(pe, ps, os, k + 1)

validate_prices(pe, ps, os) == validate_from(pe, ps, os, 1)

\* the price maps a caller hands to validate_prices
SuppliedEntries ==
    { [ price |-> p, confidence |-> c ] :
        p \in { PriceScale \div 2, PriceScale, 2 * PriceScale },
        c \in { (4 * Micro) \div 10, Micro } }

SuppliedPrices ==
    UNION { { [ t \in T |-> MkClearingPrice(t, e[t].price, e[t].confidence) ] :
                e \in [T -> SuppliedEntries] } : T \in SUBSET Tokens }

\* the orders prices are computed for: the live orders and one more order
\* selling TA, for a third token
PricedOrders == LiveOrders \cup { MkOrder("TA", "TC", 1, 2, Now, "Open") }

\* ------------------------------------------------- SettlementPlan under construction
add_interaction(s, interaction) == [s EXCEPT !.interactions = Append(@, interaction)]

add_post_hook(s, post_hook) == [s EXCEPT !.post_hooks = Append(@, post_hook)]

\* the trade of test_gas_estimation
TestTrade ==
    [ order_id |-> 0, executed_sell_amount |-> 1000, executed_buy_amount |-> 2000,
      fee |-> 10 ]

Interactions ==
    { [ target |-> 0, call_data |-> << >>, value |-> 0, interaction_type |-> k ] :
        k \in { "UniswapV2Swap", "Approval" } }

PostHooks ==
    { [ bridge_contract |-> 0, call_data |-> << >>, source_chain |-> "Mainnet",
        destination_chain |-> "Arbitrum", intermediate_token |-> "TA", amount |-> 1,
        recipient |-> 0 ] }

\* the surplus, gas cost and thresholds a Solution is scored with: those of
\* test_solution_scoring and of the default configuration
Surpluses == { 0, Micro \div 2, Micro }

Thresholds == { 0, Micro \div 100, Micro }

\* ------------------------------------------------------------ Order::validate
\* Option<T>: None is << >>, Some(v) is <<v>>
None == << >>

Some(v) == <<v>>

is_some(opt) == opt # << >>

is_none(opt) == opt = << >>

is_cross_chain(order) == is_some(order.source_chain) /\ is_some(order.destination_chain)

order_validate_without_bridge_check(order) ==
    IF order.sell_amount = 0 THEN "Sell amount must be greater than zero"
    ELSE IF order.buy_amount = 0 THEN "Buy amount must be greater than zero"
    ELSE IF order.sell_token = order.buy_token THEN "Sell and buy tokens must be different"
    ELSE IF order.valid_to = 0 THEN "Valid_to timestamp must be set"
    ELSE "Ok"

\* Order::validate: "Ok" for Ok(()), the message for Err(message)
order_validate(order) ==
    IF order.sell_amount = 0 THEN "Sell amount must be greater than zero"
    ELSE IF order.buy_amount = 0 THEN "Buy amount must be greater than zero"
    ELSE IF order.sell_token = order.buy_token THEN "Sell and buy tokens must be different"
    ELSE IF order.valid_to = 0 THEN "Valid_to timestamp must be set"
    ELSE IF is_cross_chain(order)
    THEN IF is_none(order.source_chain) \/ is_none(order.destination_chain)
         THEN "Cross-chain orders must specify both source and destination chains"
         ELSE IF is_none(order.bridge_provider)
         THEN "Cross-chain orders must specify a bridge provider"
         ELSE "Ok"
    ELSE "Ok"

\* the chains of test_cross_chain_validation
Chains == { "Ethereum", "Arbitrum" }

OptionOf(S) == { None } \cup { Some(v) : v \in S }

\* the orders validate is called on: every combination of zero and non-zero
\* amounts, equal and different tokens, unset and set deadline, chains and
\* bridge provider
CheckedOrders ==
    [ sell_token : Tokens, buy_token : Tokens, sell_amount : 0..MaxAmount,
      buy_amount : 0..MaxAmount, valid_to : {0, Now},
      source_chain : OptionOf(Chains), destination_chain : OptionOf(Chains),
      bridge_provider : OptionOf({"Across"}) ]

\* ------------------------------------------------------------------ TokenAmount
\* U256 and u128 keep their 2:1 ratio of widths, scaled down to WordBits and
\* WordBits / 2 bits
U256Max == 2 ^ WordBits - 1

U128Max == 2 ^ (WordBits \div 2) - 1

u256_checked_add(x, y) == IF x + y > U256Max THEN None ELSE Some(x + y)

u256_checked_sub(x, y) == IF y > x THEN None ELSE Some(x - y)

u256_checked_mul(x, y) == IF x * y > U256Max THEN None ELSE Some(x * y)

u256_checked_div(x, y) == IF y = 0 THEN None ELSE Some(x \div y)

\* Option::map(|raw| TokenAmount { raw, decimals })
with_decimals(opt_raw, decimals) ==
    IF opt_raw = None THEN None ELSE Some([raw |-> opt_raw[1], decimals |-> decimals])

checked_add_wrapping(self, other) ==
    Some([raw |-> (self.raw + other.raw) % (U256Max + 1), decimals |-> self.decimals])

checked_add(self, other) ==
    IF self.decimals # other.decimals THEN None
    ELSE with_decimals(u256_checked_add(self.raw, other.raw), self.decimals)

checked_sub(self, other) ==
    IF self.decimals # other.decimals THEN None
    ELSE with_decimals(u256_checked_sub(self.raw, other.raw), self.decimals)

checked_mul(self, scalar) == with_decimals(u256_checked_mul(self.raw, scalar), self.decimals)

checked_div(self, scalar) ==
    IF scalar = 0 THEN None
    ELSE with_decimals(u256_checked_div(self.raw, scalar), self.decimals)

\* every raw amount of the word, with the decimals of the source's tests
TokenAmounts == [ raw : 0..U256Max, decimals : {6, 18} ]

Scalars == 0..U128Max

\* --------------------------------------------------------------------- solve
ResultNone == [kind |-> "none", solution |-> NoSolution]

StageTimes == {0, MaxStageMs}

SolverIdle ==
    /\ orders = << >>
    /\ now = 0
    /\ valid_orders = << >>
    /\ matches = << >>
    /\ settlement = EmptySettlement
    /\ result = [kind |-> "pending", solution |-> NoSolution]
    /\ pc = "idle"
    /\ elapsed = 0

MatchingIdle ==
    /\ match_input = << >>
    /\ direct_pairs = << >>
    /\ discovered = << >>
    /\ found = << >>
    /\ candidates = << >>
    /\ selected = << >>
    /\ mpc = "idle"

NoQuery == [ token_in |-> "TA", token_out |-> "TA", amount_in |-> 0 ]

RoutingIdle ==
    /\ pools = << >>
    /\ pool_index = << >>
    /\ query = NoQuery
    /\ route = << >>
    /\ rpc = "setup"

AmmIdle == quote = << >>

PricingIdle ==
    /\ price_orders = << >>
    /\ prices = << >>
    /\ price_source = "none"
    /\ validation = [ ok |-> FALSE, error |-> "pending", order |-> 0 ]
    /\ ppc = "idle"

PlanIdle ==
    /\ plan = EmptySettlement
    /\ gas_before = 0
    /\ scored = NoSolution
    /\ threshold = 0
    /\ admitted = FALSE

\* ----------------------------------------------- solve, as steps of one call
\* A call of solve holds its own batch and locals; the engine is borrowed as
\* &self.  Each step returns the engine as it leaves it and the call's new
\* state.  entered_with is the engine as the call found it.
solve_enter(self, os, t) ==
    LET valid == validate_orders(os, t)
    IN  [ self |-> self,
          call |-> [ entered_with |-> self, orders |-> os, now |-> t,
                     valid_orders |-> valid, matches |-> << >>,
                     settlement |-> EmptySettlement,
                     result |-> IF valid = << >> THEN ResultNone
                                ELSE [kind |-> "pending", solution |-> NoSolution],
                     pc |-> IF valid = << >> THEN "done" ELSE "filtered" ] ]

solve_match_disabling_matching(self, call) ==
    LET ms == find_cow_matches(self.config, call.valid_orders)
    IN  [ self |-> [self EXCEPT !.config.enable_cow_matching = FALSE],
          call |-> [call EXCEPT !.matches = ms,
                                !.result = IF ms = << >> THEN ResultNone ELSE @,
                                !.pc = IF ms = << >> THEN "done" ELSE "matched"] ]

solve_match(self, call) ==
    LET ms == find_cow_matches(self.config, call.valid_orders)
    IN  [ self |-> self,
          call |-> [call EXCEPT !.matches = ms,
                                !.result = IF ms = << >> THEN ResultNone ELSE @,
                                !.pc = IF ms = << >> THEN "done" ELSE "matched"] ]

solve_build(self, call) ==
    [ self |-> self,
      call |-> [call EXCEPT
                  !.settlement = build_settlement(self.config, call.valid_orders,
                                                  call.matches),
                  !.pc = "built"] ]

solve_score(self, call) ==
    LET solution ==
            calculate_score(
              [ orders |-> [k \in 1..Len(call.settlement.trades) |->
                               call.settlement.trades[k].order_id],
                settlement |-> call.settlement,
                gas_cost |-> estimate_gas(call.settlement),
                surplus |-> calculate_surplus(call.valid_orders, call.settlement),
                score |-> 0 ])
        outcome ==
            IF ~validate(call.settlement) THEN [kind |-> "error", solution |-> NoSolution]
            ELSE IF ~is_profitable(solution, self.config.min_profit_threshold)
            THEN ResultNone
            ELSE [kind |-> "solution", solution |-> solution]
    IN  [ self |-> self, call |-> [call EXCEPT !.result = outcome, !.pc = "done"] ]

solve_step(self, call) ==
    CASE call.pc = "filtered" -> solve_match(self, call)
      [] call.pc = "matched" -> solve_build(self, call)
      [] call.pc = "built" -> solve_score(self, call)
      [] OTHER -> [self |-> self, call |-> call]

RECURSIVE solve_run(_, _)
solve_run(self, call) ==
    IF call.pc = "done" THEN call
    ELSE LET r == solve_step(self, call) IN solve_run(r.self, r.call)

\* one solve call run from entry to return with no other call in flight
solve_alone(self, os, t) ==
    LET r == solve_enter(self, os, t) IN solve_run(r.self, r.call)

\* SolverEngine::new(config)
NewEngine(cfg) == [config |-> cfg, name |-> "CoWSolverEngine"]

\* the batches of the concurrent calls: empty, a matching pair, a pair whose
\* prices do not meet, and a matching pair behind a cancelled order
ConcBatches ==
    { << >>,
      Batch(<< MkOrder("TA", "TB", 1, 1, Now, "Open"), MkOrder("TB", "TA", 1, 1, Now, "Open") >>),
      Batch(<< MkOrder("TA", "TB", 1, 2, Now, "Open"), MkOrder("TB", "TA", 1, 2, Now, "Open") >>),
      Batch(<< MkOrder("TA", "TB", 1, 1, Now, "Cancelled"),
               MkOrder("TA", "TB", 2, 1, Now, "Open"), MkOrder("TB", "TA", 1, 1, Now, "Open") >>) }

\* a batch whose orders all carry the identifier [0u8; 32], as the batches of
\* the engine's tests do
SameId(b) == [k \in DOMAIN b |-> WithId(b[k], 0)]

\* the configurations of the engines whose surplus is looked at: those of
\* Configs and one that admits any score from 0.0
SurplusConfigs == Configs \cup { [DefaultConfig EXCEPT !.min_profit_threshold = 0] }

\* the clock readings of the calls: at the orders' deadline and one second later
ClockReadings == { Now, Now + 1 }

\* ------------------------------------------- amounts of the full 256-bit range
\* U256::as_u128: the value when it fits in the narrower word, no value (the
\* call panics with "Integer overflow when casting to u128") otherwise
as_u128(x) == IF x > U128Max THEN None ELSE Some(x)

\* the four conversions of is_price_compatible and of has_price_overlap
prices_convert(order_a, order_b) ==
    /\ as_u128(order_a.buy_amount) # None
    /\ as_u128(order_a.sell_amount) # None
    /\ as_u128(order_b.sell_amount) # None
    /\ as_u128(order_b.buy_amount) # None

\* the pair loop reaches a price check whose conversion panics
pair_scan_panics(os) ==
    \E k \in DOMAIN IndexPairs(Len(os)) :
        LET order_a == os[IndexPairs(Len(os))[k][1]]
            order_b == os[IndexPairs(Len(os))[k][2]]
        IN  /\ order_a.sell_token = order_b.buy_token
            /\ order_a.buy_token = order_b.sell_token
            /\ ~prices_convert(order_a, order_b)

Aborted == [kind |-> "aborted", solution |-> NoSolution]

\* solve on amounts of any width: the result, or Aborted when a panic unwinds it
solve_outcome(self, os, t) ==
    IF self.config.enable_cow_matching /\ pair_scan_panics(validate_orders(os, t))
    THEN Aborted
    ELSE solve_alone(self, os, t).result

\* MatchingEngine::find_matches on amounts of any width
find_matches_outcome(e, os) ==
    IF pair_scan_panics(os) THEN [kind |-> "aborted", found |-> << >>]
    ELSE [kind |-> "completed", found |-> find_matches(e, os)]

\* one amount that fits in 128 bits, 2^128 and 2^256 - 1
WideAmounts == { 1, U128Max + 1, U256Max }

\* Open, unexpired orders with non-zero amounts of the full range
WideOrders ==
    { o \in [ sell_token : Tokens, buy_token : Tokens, sell_amount : WideAmounts,
              buy_amount : WideAmounts, valid_to : {Now}, fee_amount : {1000},
              status : {"Open"} ] : o.sell_token # o.buy_token }

OrderIdle == checked = << >>

TokenIdle == arith = << >>

\* SolverEngine::new(SolverConfig::default()), no call in flight
ConcIdle ==
    /\ shared = NewEngine(DefaultConfig)
    /\ calls = << >>

WideIdle == wide = << >>

\* the engines no call is made on
OthersIdle(S) ==
    /\ "solver" \in S => config = DefaultConfig /\ SolverIdle
    /\ "matching" \in S => engine = DefaultEngine /\ MatchingIdle
    /\ "routing" \in S => router = DefaultRouter /\ RoutingIdle
    /\ "amm" \in S => AmmIdle
    /\ "pricing" \in S => pricer = DefaultPricer /\ PricingIdle
    /\ "plan" \in S => PlanIdle
    /\ "order" \in S => OrderIdle
    /\ "token" \in S => TokenIdle
    /\ "conc" \in S => ConcIdle
    /\ "wide" \in S => WideIdle

Init ==
    /\ config \in Configs
    /\ SolverIdle
    /\ OthersIdle({"matching", "routing", "amm", "pricing", "plan", "order", "token", "conc", "wide"})

\* validate and filter the batch
SolveFilter ==
    /\ pc = "idle"
    /\ \E n \in 0..MaxOrders : \E b \in [1..n -> OrderUniverse] :
         /\ orders' = Batch(b)
         /\ now' = Now
         /\ valid_orders' = validate_orders(Batch(b), Now)
    /\ elapsed' = 0
    /\ IF valid_orders' = << >>
       THEN result' = ResultNone /\ pc' = "done"
       ELSE result' = result /\ pc' = "filtered"
    /\ UNCHANGED <<config, matches, settlement, matching_vars, routing_vars, amm_vars, pricing_vars, plan_vars,
                   order_vars, token_vars, conc_vars, wide_vars>>

\* find CoW matches
SolveMatch ==
    /\ pc = "filtered"
    /\ matches' = find_cow_matches(config, valid_orders)
    /\ \E dt \in StageTimes : elapsed' = elapsed + dt
    /\ IF matches' = << >>
       THEN result' = ResultNone /\ pc' = "done"
       ELSE result' = result /\ pc' = "matched"
    /\ UNCHANGED <<config, orders, now, valid_orders, settlement, matching_vars, routing_vars, amm_vars, pricing_vars, plan_vars,
                   order_vars, token_vars, conc_vars, wide_vars>>

\* build the settlement plan
SolveBuild ==
    /\ pc = "matched"
    /\ settlement' = build_settlement(config, valid_orders, matches)
    /\ \E dt \in StageTimes : elapsed' = elapsed + dt
    /\ pc' = "built"
    /\ UNCHANGED <<config, orders, now, valid_orders, matches, result, matching_vars, routing_vars, amm_vars, pricing_vars, plan_vars,
                   order_vars, token_vars, conc_vars, wide_vars>>

\* validate, estimate gas, compute surplus and score, admit if profitable
SolveScore ==
    /\ pc = "built"
    /\ IF ~validate(settlement)
       THEN result' = [kind |-> "error", solution |-> NoSolution]
       ELSE LET solution ==
                    calculate_score(
                      [ orders |-> [k \in 1..Len(settlement.trades) |->
                                       settlement.trades[k].order_id],
                        settlement |-> settlement,
                        gas_cost |-> estimate_gas(settlement),
                        surplus |-> calculate_surplus(valid_orders, settlement),
                        score |-> 0 ])
            IN  IF ~is_profitable(solution, config.min_profit_threshold)
                THEN result' = ResultNone
                ELSE result' = [kind |-> "solution", solution |-> solution]
    /\ pc' = "done"
    /\ UNCHANGED <<config, orders, now, valid_orders, matches, settlement, elapsed, matching_vars, routing_vars, amm_vars, pricing_vars, plan_vars,
                   order_vars, token_vars, conc_vars, wide_vars>>

Next == SolveFilter \/ SolveMatch \/ SolveBuild \/ SolveScore

Spec == Init /\ [][Next]_vars

\* ------------------------------------------------- calls of the MatchingEngine
InitMatch ==
    /\ engine \in Engines
    /\ MatchingIdle
    /\ OthersIdle({"solver", "routing", "amm", "pricing", "plan", "order", "token", "conc", "wide"})

\* find_matches over a list of open orders with non-zero amounts
FindMatches ==
    /\ mpc = "idle"
    /\ \E n \in 0..MaxOrders : \E b \in [1..n -> MatchOrders] :
         /\ match_input' = Batch(b)
         /\ direct_pairs' = find_direct_pairs(Batch(b))
         /\ discovered' = find_direct_pairs(Batch(b)) \o find_rings(engine, Batch(b))
         /\ found' = find_matches(engine, Batch(b))
    /\ mpc' = "found"
    /\ UNCHANGED <<engine, candidates, selected, solver_vars, routing_vars, amm_vars, pricing_vars, plan_vars,
                   order_vars, token_vars, conc_vars, wide_vars>>

\* select_optimal_matches over the matches just found
SelectFound ==
    /\ mpc = "found"
    /\ candidates' = found
    /\ selected' = select_optimal_matches(found)
    /\ mpc' = "selected"
    /\ UNCHANGED <<engine, match_input, direct_pairs, discovered, found, solver_vars, routing_vars, amm_vars, pricing_vars, plan_vars,
                   order_vars, token_vars, conc_vars, wide_vars>>

\* select_optimal_matches over a list of matches a caller supplies
SelectOptimalMatches ==
    /\ mpc = "idle"
    /\ \E n \in 0..MaxCands : \E ms \in [1..n -> CandidateMatches] :
         /\ candidates' = ms
         /\ selected' = select_optimal_matches(ms)
    /\ mpc' = "selected"
    /\ UNCHANGED <<engine, match_input, direct_pairs, discovered, found, solver_vars, routing_vars, amm_vars, pricing_vars, plan_vars,
                   order_vars, token_vars, conc_vars, wide_vars>>

NextMatch == FindMatches \/ SelectFound \/ SelectOptimalMatches

SpecMatch == InitMatch /\ [][NextMatch]_vars

\* ------------------------------------------------- calls of the RoutingEngine
Routers ==
    { NewRouter(h, c) : h \in 0..MaxHops, c \in { Ratio(5, 1), Ratio(10, 1) } }

\* the swaps a route is asked for
Queries ==
    { [ token_in |-> p[1], token_out |-> p[2], amount_in |-> a ] :
        p \in { <<"TA", "TB">>, <<"TA", "TC">>, <<"TC", "TB">> }, a \in { 0, 10 } }

InitRoute ==
    /\ router \in Routers
    /\ RoutingIdle
    /\ OthersIdle({"solver", "matching", "amm", "pricing", "plan", "order", "token", "conc", "wide"})

AddPool ==
    /\ rpc = "setup"
    /\ Len(pools) < MaxPools
    /\ \E pool \in PoolShapes :
         /\ pool_index' = add_pool_index(pool_index, pool, Len(pools) + 1)
         /\ pools' = Append(pools, pool)
    /\ UNCHANGED <<router, query, route, rpc,
                   solver_vars, matching_vars, amm_vars, pricing_vars, plan_vars,
                   order_vars, token_vars, conc_vars, wide_vars>>

FindBestRoute ==
    /\ rpc = "setup"
    /\ \E q \in Queries :
         /\ query' = q
         /\ route' = find_best_route(router, pools, pool_index, q.token_in, q.token_out,
                                     q.amount_in)
    /\ rpc' = "routed"
    /\ UNCHANGED <<router, pools, pool_index,
                   solver_vars, matching_vars, amm_vars, pricing_vars, plan_vars,
                   order_vars, token_vars, conc_vars, wide_vars>>

NextRoute == AddPool \/ FindBestRoute

SpecRoute == InitRoute /\ [][NextRoute]_vars

\* ------------------------------------------- the constant-product output functions
\* (amount_in, reserve_in, reserve_out, fee_bps): a grid of small values, and
\* the values of test_amm_output_calculation and test_constant_product_calculation
QuoteInputs ==
    ((0..MaxIn) \X (0..MaxReserve) \X (0..MaxReserve) \X {0, 30, 5000, 10000})
        \cup { <<1000, 100000, 100000, 30>>, <<1000, 100000, 200000, 30>> }

InitAmm ==
    /\ AmmIdle
    /\ OthersIdle({"solver", "matching", "routing", "pricing", "plan", "order", "token", "conc", "wide"})

\* both functions are evaluated on the same input
Quote ==
    /\ \E i \in QuoteInputs :
         quote' = << [ amount_in |-> i[1], reserve_in |-> i[2], reserve_out |-> i[3],
                       fee_bps |-> i[4],
                       routing_out |-> calculate_constant_product_output(i[1], i[2], i[3], i[4]),
                       math_out |-> calculate_amm_output(i[1], i[2], i[3], i[4]) ] >>
    /\ UNCHANGED <<solver_vars, matching_vars, routing_vars, pricing_vars, plan_vars,
                   order_vars, token_vars, conc_vars, wide_vars>>

NextAmm == Quote

SpecAmm == InitAmm /\ [][NextAmm]_vars

\* ------------------------------------------------- calls of the PricingEngine
InitPrice ==
    /\ pricer \in Pricers
    /\ PricingIdle
    /\ OthersIdle({"solver", "matching", "routing", "amm", "plan", "order", "token", "conc", "wide"})

\* calculate_clearing_prices over a list of live orders
CalculateClearingPrices ==
    /\ ppc = "idle"
    /\ \E n \in 0..MaxPriced : \E b \in [1..n -> PricedOrders] :
         \E last \in group_orders(Batch(b)) :
            /\ price_orders' = Batch(b)
            /\ prices' = calculate_clearing_prices(pricer, Batch(b), last)
    /\ price_source' = "computed"
    /\ ppc' = "priced"
    /\ UNCHANGED <<pricer, validation,
                   solver_vars, matching_vars, routing_vars, amm_vars, plan_vars,
                   order_vars, token_vars, conc_vars, wide_vars>>

\* a caller brings its own price map
SupplyPrices ==
    /\ ppc = "idle"
    /\ \E n \in 0..MaxPriced : \E b \in [1..n -> LiveOrders] :
         price_orders' = Batch(b)
    /\ prices' \in SuppliedPrices
    /\ price_source' = "supplied"
    /\ ppc' = "priced"
    /\ UNCHANGED <<pricer, validation,
                   solver_vars, matching_vars, routing_vars, amm_vars, plan_vars,
                   order_vars, token_vars, conc_vars, wide_vars>>

ValidatePrices ==
    /\ ppc = "priced"
    /\ validation' = validate_prices(pricer, prices, price_orders)
    /\ ppc' = "validated"
    /\ UNCHANGED <<pricer, price_orders, prices, price_source,
                   solver_vars, matching_vars, routing_vars, amm_vars, plan_vars,
                   order_vars, token_vars, conc_vars, wide_vars>>

NextPrice == CalculateClearingPrices \/ SupplyPrices \/ ValidatePrices

SpecPrice == InitPrice /\ [][NextPrice]_vars

\* --------------------------------- a settlement plan and the scoring of a Solution
\* A plan is filled by add_trade, add_interaction and add_post_hook; then one
\* Solution takes it and is scored.
InitPlan ==
    /\ config \in Configs
    /\ SolverIdle
    /\ OthersIdle({"matching", "routing", "amm", "pricing", "plan", "order", "token", "conc", "wide"})

AddTrade ==
    /\ scored = NoSolution
    /\ Len(plan.trades) < MaxItems
    /\ plan' = add_trade(plan, TestTrade)
    /\ gas_before' = estimate_gas(plan)
    /\ UNCHANGED <<scored, threshold, admitted,
                   solver_vars, matching_vars, routing_vars, amm_vars, pricing_vars,
                   order_vars, token_vars, conc_vars, wide_vars>>

AddInteraction ==
    /\ scored = NoSolution
    /\ Len(plan.interactions) < MaxItems
    /\ \E interaction \in Interactions : plan' = add_interaction(plan, interaction)
    /\ gas_before' = estimate_gas(plan)
    /\ UNCHANGED <<scored, threshold, admitted,
                   solver_vars, matching_vars, routing_vars, amm_vars, pricing_vars,
                   order_vars, token_vars, conc_vars, wide_vars>>

AddPostHook ==
    /\ scored = NoSolution
    /\ Len(plan.post_hooks) < MaxItems
    /\ \E post_hook \in PostHooks : plan' = add_post_hook(plan, post_hook)
    /\ gas_before' = estimate_gas(plan)
    /\ UNCHANGED <<scored, threshold, admitted,
                   solver_vars, matching_vars, routing_vars, amm_vars, pricing_vars,
                   order_vars, token_vars, conc_vars, wide_vars>>

\* a Solution over the plan is scored and tested against a threshold; its
\* gas_cost is the plan's estimate or the 100_000 of test_solution_scoring
ScoreSolution ==
    /\ scored = NoSolution
    /\ \E surplus \in Surpluses, gas_cost \in { estimate_gas(plan), 100000 } :
         scored' = calculate_score(
                     [ orders |-> [k \in 1..Len(plan.trades) |-> plan.trades[k].order_id],
                       settlement |-> plan, gas_cost |-> gas_cost, surplus |-> surplus,
                       score |-> 0 ])
    /\ threshold' \in Thresholds
    /\ admitted' = is_profitable(scored', threshold')
    /\ UNCHANGED <<plan, gas_before,
                   solver_vars, matching_vars, routing_vars, amm_vars, pricing_vars,
                   order_vars, token_vars, conc_vars, wide_vars>>

\* either a plan is built and scored by hand, or solve builds and scores one
NextPlan ==
    \/ pc = "idle" /\ AddTrade
    \/ pc = "idle" /\ AddInteraction
    \/ pc = "idle" /\ AddPostHook
    \/ pc = "idle" /\ ScoreSolution
    \/ PlanIdle /\ SolveFilter
    \/ SolveMatch
    \/ SolveBuild
    \/ SolveScore

SpecPlan == InitPlan /\ [][NextPlan]_vars


\* ----------------------------------------------------- calls of Order::validate
InitOrder ==
    /\ OrderIdle
    /\ OthersIdle({"solver", "matching", "routing", "amm", "pricing", "plan",
                   "token", "conc", "wide"})

Validate ==
    /\ checked = None
    /\ \E order \in CheckedOrders :
         checked' = Some([ order |-> order, result |-> order_validate(order) ])
    /\ UNCHANGED <<solver_vars, matching_vars, routing_vars, amm_vars, pricing_vars,
                   plan_vars, token_vars, conc_vars, wide_vars>>

NextOrder == Validate

SpecOrder == InitOrder /\ [][NextOrder]_vars

\* --------------------------------------------------- TokenAmount arithmetic
InitToken ==
    /\ TokenIdle
    /\ OthersIdle({"solver", "matching", "routing", "amm", "pricing", "plan",
                   "order", "conc", "wide"})

\* the checked operations on two amounts and a scalar, and the two round trips
\* (a + b) - b and (a * s) / s
Arithmetic ==
    /\ arith = None
    /\ \E a \in TokenAmounts, b \in TokenAmounts, s \in Scalars :
         LET sum == checked_add(a, b)
             mul == checked_mul(a, s)
         IN  arith' = Some([ a |-> a, b |-> b, s |-> s,
                             sum |-> sum,
                             back |-> IF sum = None THEN None ELSE checked_sub(sum[1], b),
                             diff |-> checked_sub(a, b),
                             mul |-> mul,
                             div |-> checked_div(a, s),
                             mul_div |-> IF mul = None THEN None
                                         ELSE checked_div(mul[1], s) ])
    /\ UNCHANGED <<solver_vars, matching_vars, routing_vars, amm_vars, pricing_vars,
                   plan_vars, order_vars, conc_vars, wide_vars>>

NextToken == Arithmetic

SpecToken == InitToken /\ [][NextToken]_vars

\* --------------------------------------- concurrent solve calls on one engine
InitConc ==
    /\ shared \in { NewEngine(cfg) : cfg \in Configs }
    /\ calls = << >>
    /\ OthersIdle({"solver", "matching", "routing", "amm", "pricing", "plan",
                   "order", "token", "wide"})

\* a caller enters solve: the batch is filtered up to the first .await
SolveEnter ==
    /\ Len(calls) < MaxCalls
    /\ \E os \in ConcBatches, t \in ClockReadings :
         LET r == solve_enter(shared, os, t)
         IN  shared' = r.self /\ calls' = Append(calls, r.call)
    /\ UNCHANGED <<solver_vars, matching_vars, routing_vars, amm_vars, pricing_vars,
                   plan_vars, order_vars, token_vars, wide_vars>>

\* the call c is resumed for one stage
Resume(c, stage) ==
    /\ calls[c].pc = stage
    /\ LET r == solve_step(shared, calls[c])
       IN  shared' = r.self /\ calls' = [calls EXCEPT ![c] = r.call]
    /\ UNCHANGED <<solver_vars, matching_vars, routing_vars, amm_vars, pricing_vars,
                   plan_vars, order_vars, token_vars, wide_vars>>

CallMatch == \E c \in DOMAIN calls : Resume(c, "filtered")

CallBuild == \E c \in DOMAIN calls : Resume(c, "matched")

CallScore == \E c \in DOMAIN calls : Resume(c, "built")

NextConc == SolveEnter \/ CallMatch \/ CallBuild \/ CallScore

SpecConc == InitConc /\ [][NextConc]_vars

\* --------------------------- one solve call on batches with any identifiers
InitSurplus ==
    /\ shared \in { NewEngine(cfg) : cfg \in SurplusConfigs }
    /\ calls = << >>
    /\ OthersIdle({"solver", "matching", "routing", "amm", "pricing", "plan",
                   "order", "token", "wide"})

\* solve, from entry to return, on a batch of live orders whose identifiers
\* are pairwise distinct or all the same
SolveOnce ==
    /\ calls = << >>
    /\ \E n \in 0..MaxOrders : \E b \in [1..n -> LiveOrders] :
         \E os \in { Batch(b), SameId(b) } :
            calls' = << solve_alone(shared, os, Now) >>
    /\ UNCHANGED <<shared, solver_vars, matching_vars, routing_vars, amm_vars,
                   pricing_vars, plan_vars, order_vars, token_vars, wide_vars>>

NextSurplus == SolveOnce

SpecSurplus == InitSurplus /\ [][NextSurplus]_vars

\* ------------------------- solve and find_matches on the full range of amounts
InitWide ==
    /\ shared \in { NewEngine(cfg) : cfg \in Configs }
    /\ calls = << >>
    /\ engine = DefaultEngine
    /\ MatchingIdle
    /\ WideIdle
    /\ OthersIdle({"solver", "routing", "amm", "pricing", "plan", "order", "token"})

SolveWide ==
    /\ wide = None
    /\ \E n \in 0..MaxWide : \E b \in [1..n -> WideOrders] :
         wide' = Some([ op |-> "solve", orders |-> Batch(b),
                        outcome |-> solve_outcome(shared, Batch(b), Now) ])
    /\ UNCHANGED <<solver_vars, matching_vars, routing_vars, amm_vars, pricing_vars,
                   plan_vars, order_vars, token_vars, conc_vars>>

FindMatchesWide ==
    /\ wide = None
    /\ \E n \in 0..MaxWide : \E b \in [1..n -> WideOrders] :
         wide' = Some([ op |-> "find_matches", orders |-> Batch(b),
                        outcome |-> find_matches_outcome(engine, Batch(b)) ])
    /\ UNCHANGED <<solver_vars, matching_vars, routing_vars, amm_vars, pricing_vars,
                   plan_vars, order_vars, token_vars, conc_vars>>

NextWide == SolveWide \/ FindMatchesWide

SpecWide == InitWide /\ [][NextWide]_vars

\* ------------------------------------------------------------------- claims
Returned == pc = "done" /\ result.kind = "solution"

Trades == result.solution.settlement.trades

\* scenario S1: O1 sells 1 TA for 2 TB, O2 sells 2 TB for 1 TA
S1Batch ==
    Batch(<< MkOrder("TA", "TB", 1, 2, Now, "Open"),
             MkOrder("TB", "TA", 2, 1, Now, "Open") >>)

\* C1: for the S1 batch and the default configuration solve returns a
\* Solution with exactly two trades, one per order.
C1_S1ReturnsSolution ==
    (pc = "done" /\ config = DefaultConfig /\ orders = S1Batch)
        => /\ result.kind = "solution"
           /\ Len(Trades) = 2
           /\ { Trades[k].order_id : k \in DOMAIN Trades } = {1, 2}

\* C2: every Solution solve returns has a settlement with at least one trade
\* and a score, surplus - gas_cost * 10^-9, not below min_profit_threshold;
\* any other outcome carries no settlement at all.
C2_SolutionValidatedProfitable ==
    pc = "done" =>
        IF result.kind = "solution"
        THEN /\ Len(Trades) >= 1
             /\ result.solution.score =
                    result.solution.surplus - (result.solution.gas_cost \div 1000)
             /\ result.solution.score >= config.min_profit_threshold
        ELSE /\ result.kind \in {"none", "error"}
             /\ Trades = << >>
             /\ DOMAIN result.solution.settlement.clearing_prices = {}

C2_Witness == Returned /\ Len(Trades) >= 2

\* C3: in every Solution solve returns, each order is referenced by at most
\* one trade.
C3_TradesNonOverlapping ==
    Returned =>
        \A i, j \in DOMAIN Trades : i # j => Trades[i].order_id # Trades[j].order_id

\* C4: for every order in a returned Solution the clearing prices satisfy
\* sell_amount * price[sell_token] >= buy_amount * price[buy_token].
C4_ClearingPricesRespectLimits ==
    Returned =>
        \A k \in DOMAIN Trades :
            LET o == orders[Trades[k].order_id]
                price == result.solution.settlement.clearing_prices
            IN  /\ o.sell_token \in DOMAIN price
                /\ o.buy_token \in DOMAIN price
                /\ o.sell_amount * price[o.sell_token] >= o.buy_amount * price[o.buy_token]

\* the positions of the batch the filter has to keep
KeptPositions ==
    { k \in DOMAIN orders :
        /\ orders[k].status = "Open"
        /\ orders[k].valid_to >= now
        /\ orders[k].sell_amount # 0
        /\ orders[k].buy_amount # 0 }

\* C5: the filter keeps exactly the Open, unexpired (valid_to >= now) orders
\* with non-zero sell and buy amounts, in input order, and no trade of a
\* returned Solution references any other order.
C5_FilterKeepsLiveOrders ==
    pc # "idle" =>
        /\ Len(valid_orders) = Cardinality(KeptPositions)
        /\ \A k \in KeptPositions : \E i \in DOMAIN valid_orders : valid_orders[i] = orders[k]
        /\ \A i \in DOMAIN valid_orders : valid_orders[i].id \in KeptPositions
        /\ \A i, j \in DOMAIN valid_orders : i < j => valid_orders[i].id < valid_orders[j].id
        /\ Returned => \A k \in DOMAIN Trades : Trades[k].order_id \in KeptPositions

C5_Witness ==
    /\ Returned
    /\ \E k \in DOMAIN orders : orders[k].valid_to < now
    /\ Len(valid_orders) = 2

\* C6: when the elapsed time read between two stages exceeds timeout_ms,
\* solve returns no solution.
C6_TimeoutHonoured ==
    (pc = "done" /\ elapsed > config.timeout_ms) => result.kind # "solution"

\* the elements of s at the positions in S, in order
RECURSIVE PickFrom(_, _, _)
PickFrom(s, S, k) ==
    IF k > Len(s) THEN << >>
    ELSE (IF k \in S THEN << s[k] >> ELSE << >>) \o PickFrom(s, S, k + 1)

DisjointMatches(m1, m2) == Range(m1.orders) \cap Range(m2.orders) = {}

\* C7: select_optimal_matches accepts a candidate iff none of its order ids
\* occurs in a candidate accepted before it; the selected matches are pairwise
\* disjoint and every rejected one overlaps an accepted one that precedes it.
C7_GreedyDisjointSelection ==
    mpc = "selected" =>
        /\ \E S \in SUBSET DOMAIN candidates :
              /\ selected = PickFrom(candidates, S, 1)
              /\ \A k \in DOMAIN candidates :
                    k \in S <=> \A j \in S : j < k => DisjointMatches(candidates[j], candidates[k])
        /\ \A i, j \in DOMAIN selected :
              i # j => DisjointMatches(selected[i], selected[j])

C7_Witness ==
    /\ mpc = "selected"
    /\ Len(candidates) = 3
    /\ Len(selected) = 2
    /\ selected[2] = candidates[3]

\* position of a match in the list find_matches sorts
Discovery(m) == CHOOSE k \in DOMAIN discovered : discovered[k] = m

\* C8: find_matches returns the discovered matches of quality >= 
\* min_quality_score, sorted by descending quality, equal qualities in
\* discovery order; an empty order list gives an empty result.
C8_FoundSortedAndFiltered ==
    mpc = "found" =>
        /\ \A i, j \in DOMAIN found :
              i < j => /\ found[i].quality_score >= found[j].quality_score
                       /\ found[i].quality_score = found[j].quality_score
                              => Discovery(found[i]) < Discovery(found[j])
        /\ \A i \in DOMAIN found :
              /\ found[i].quality_score >= engine.min_quality_score
              /\ \E k \in DOMAIN discovered : discovered[k] = found[i]
        /\ Len(found) = Cardinality({ k \in DOMAIN discovered :
                                        discovered[k].quality_score >= engine.min_quality_score })
        /\ match_input = << >> => found = << >>

C8_Witness ==
    /\ mpc = "found"
    /\ Len(discovered) = 2
    /\ Len(found) = 2
    /\ found[1] = discovered[2]
    /\ found[1].quality_score > found[2].quality_score

\* further cases of C8 that are reached: a tie kept in discovery order, and a
\* match dropped for its quality
C8_TieReached ==
    /\ mpc = "found"
    /\ Len(found) = 2
    /\ found[1].quality_score = found[2].quality_score

C8_FilterReached ==
    /\ mpc = "found"
    /\ Len(found) = 1
    /\ Len(discovered) = 2
    /\ found[1] = discovered[2]

\* the pair (i, j) of match_input the claim says is matched
Qualifies(i, j) ==
    /\ match_input[i].sell_token = match_input[j].buy_token
    /\ match_input[i].buy_token = match_input[j].sell_token
    /\ match_input[i].buy_amount * match_input[j].buy_amount
           <= match_input[i].sell_amount * match_input[j].sell_amount

QualifyingPairs ==
    { p \in (DOMAIN match_input) \X (DOMAIN match_input) : p[1] < p[2] /\ Qualifies(p[1], p[2]) }

C10_DirectPairSymmetric ==
    (mpc = "found" /\ Len(match_input) = 2) =>
        LET swapped == find_direct_pairs(<<match_input[2], match_input[1]>>)
        IN  /\ Len(swapped) = Len(direct_pairs)
            /\ Len(direct_pairs) = 1 =>
                  /\ Range(swapped[1].orders) = Range(direct_pairs[1].orders)
                  /\ swapped[1].quality_score = direct_pairs[1].quality_score
                  /\ swapped[1].estimated_surplus = direct_pairs[1].estimated_surplus

\* the products of the buy amounts and of the sell amounts of the orders of
\* match_input at the positions c[1..k]
RECURSIVE BuyProduct(_, _)
BuyProduct(c, k) ==
    IF k = 0 THEN 1 ELSE match_input[c[k]].buy_amount * BuyProduct(c, k - 1)

RECURSIVE SellProduct(_, _)
SellProduct(c, k) ==
    IF k = 0 THEN 1 ELSE match_input[c[k]].sell_amount * SellProduct(c, k - 1)

\* the lists of k distinct orders of match_input, 3 <= k <= max_ring_size,
\* whose tokens form a simple cycle with a product of buy / sell of 1 or more
RingCycles ==
    UNION { { c \in [1..k -> DOMAIN match_input] :
                /\ \A i, j \in 1..k : i # j =>
                      /\ c[i] # c[j]
                      /\ match_input[c[i]].sell_token # match_input[c[j]].sell_token
                /\ \A i \in 1..k :
                      match_input[c[i]].buy_token = match_input[c[(i % k) + 1]].sell_token
                /\ BuyProduct(c, k) >= SellProduct(c, k) } :
            k \in 3..engine.max_ring_size }

\* C11: for every such list of orders, find_matches discovers (before the
\* quality filter) a match of type Ring that lists those orders.
C11_RingsDiscovered ==
    mpc = "found" =>
        \A c \in RingCycles :
            \E k \in DOMAIN discovered :
                /\ discovered[k].match_type = "Ring"
                /\ Range(discovered[k].orders) = { match_input[c[i]].id : i \in DOMAIN c }

\* the input of scenario S4 has been evaluated
S4Quoted ==
    /\ quote # << >>
    /\ quote[1].amount_in = 1000
    /\ quote[1].reserve_in = 100000
    /\ quote[1].reserve_out = 100000
    /\ quote[1].fee_bps = 30

\* C12 as stated: for reserves (100000, 100000), fee 30 bps and amount_in 1000
\* the output of calculate_constant_product_output and of calculate_amm_output
\* is strictly between 994 and 997.
C12_S4OutputBetween994And997 ==
    S4Quoted =>
        /\ 994 < quote[1].routing_out /\ quote[1].routing_out < 997
        /\ quote[1].math_out # << >>
        /\ 994 < quote[1].math_out[1] /\ quote[1].math_out[1] < 997

\* C12 as amended: for that input both functions give 987, which is strictly
\* between 986 and 988 and below the 997 that is left of amount_in after the fee.
C12_S4OutputIs987 ==
    S4Quoted =>
        /\ 986 < quote[1].routing_out /\ quote[1].routing_out < 988
        /\ quote[1].math_out # << >>
        /\ 986 < quote[1].math_out[1] /\ quote[1].math_out[1] < 988

C12_Witness == S4Quoted /\ quote[1].routing_out > 0 /\ quote[1].math_out # << >>

\* an input C13 speaks of, small enough for its products to be formed directly
InC13Domain ==
    /\ quote # << >>
    /\ quote[1].amount_in \in 1..MaxIn
    /\ quote[1].reserve_in > 0
    /\ quote[1].reserve_out > 0
    /\ quote[1].fee_bps > 0 /\ quote[1].fee_bps < 10000

\* C13: for amount_in > 0, reserves > 0 and 0 < fee_bps < 10000 the
\* constant-product output out is floor(N / D) with
\* N = amount_in * (10000 - fee_bps) * R_out and
\* D = R_in * 10000 + amount_in * (10000 - fee_bps), and it is strictly less
\* than amount_in * R_out / R_in and than R_out.
C13_ConstantProductOutput ==
    InC13Domain =>
        LET q == quote[1]
            N == q.amount_in * (10000 - q.fee_bps) * q.reserve_out
            D == q.reserve_in * 10000 + q.amount_in * (10000 - q.fee_bps)
        IN  /\ q.routing_out * D <= N
            /\ N < (q.routing_out + 1) * D
            /\ q.routing_out * q.reserve_in < q.amount_in * q.reserve_out
            /\ q.routing_out < q.reserve_out

C13_Witness ==
    /\ InC13Domain
    /\ quote[1].fee_bps = 30
    /\ quote[1].amount_in = quote[1].reserve_in
    /\ quote[1].reserve_out = 4
    /\ quote[1].routing_out = 1

\* find_best_route has returned a route
Routed == rpc = "routed" /\ route # << >>

\* the pool serves the pair of tokens, in either direction
Connects(pool, x, y) ==
    \/ pool.token_a = x /\ pool.token_b = y
    \/ pool.token_a = y /\ pool.token_b = x

\* C14: the route returned has at most max_hops pools; with max_hops = 1 it
\* is one pool that connects token_in and token_out.
C14_RouteWithinMaxHops ==
    Routed =>
        /\ Len(route[1].pools) <= router.max_hops
        /\ router.max_hops = 1 =>
              /\ Len(route[1].pools) = 1
              /\ Connects(route[1].pools[1], query.token_in, query.token_out)

\* the token that is neither token_in nor token_out
Via == CHOOSE t \in RouteTokens : t # query.token_in /\ t # query.token_out

\* token_in and token_out are connected only through the two-pool chain over
\* Via, every hop of it gives a non-zero output and its summed impact is
\* within the cap
OnlyChain ==
    /\ rpc = "routed"
    /\ \A k \in DOMAIN pools : ~Connects(pools[k], query.token_in, query.token_out)
    /\ LET r == evaluate_path(pools, pool_index,
                              <<query.token_in, Via, query.token_out>>, query.amount_in)
       IN  r # << >> /\ Leq(r[1].price_impact, router.max_price_impact)

\* C15: if token_in and token_out are connected only through a chain of h
\* pools, 2 <= h <= max_hops, find_best_route returns a route of h pools and a
\* token path of h + 1 tokens (here h = 2, over three tokens).
C15_MultiHopRoutesFound ==
    (OnlyChain /\ 2 <= router.max_hops) =>
        /\ route # << >>
        /\ Len(route[1].pools) = 2
        /\ route[1].path = <<query.token_in, Via, query.token_out>>

\* the candidate routes: each pool that serves (token_in, token_out) with a
\* non-zero output, and the evaluation of each longer token path of at most
\* max_hops pools
DirectCandidates ==
    { MkRoute(<< pools[k] >>, <<query.token_in, query.token_out>>,
              calculate_output(pools[k], query.token_in, query.amount_in),
              pools[k].gas_cost,
              calculate_price_impact(pools[k], query.token_in, query.amount_in)) :
        k \in { j \in DOMAIN pools :
                   /\ Connects(pools[j], query.token_in, query.token_out)
                   /\ calculate_output(pools[j], query.token_in, query.amount_in) > 0 } }

ChainCandidates ==
    IF router.max_hops < 2 THEN {}
    ELSE Range(evaluate_path(pools, pool_index,
                             <<query.token_in, Via, query.token_out>>, query.amount_in))

CandidatesWithinCap ==
    { c \in DirectCandidates \cup ChainCandidates :
        Leq(c.price_impact, router.max_price_impact) }

\* C16: find_best_route returns a candidate of maximal score among those
\* whose impact is within the cap, and nothing only if there is none.  It is
\* stated for max_hops >= 1 and for the queries all of whose candidates are
\* direct pools, so that neither a route of a router without hops nor a chain
\* that the path search misses plays a part.
C16_BestRouteWithinCap ==
    (rpc = "routed" /\ router.max_hops >= 1 /\ ChainCandidates = {}) =>
        /\ route = << >> <=> CandidatesWithinCap = {}
        /\ route # << >> =>
              /\ Leq(route[1].price_impact, router.max_price_impact)
              /\ \A c \in CandidatesWithinCap : ~ScoreGt(c.score, route[1].score)

\* the k-th order given to validate_prices is satisfied by the price map
PricesSatisfy(k) ==
    LET order == price_orders[k]
    IN  /\ order.sell_token \in DOMAIN prices
        /\ order.buy_token \in DOMAIN prices
        /\ prices[order.sell_token].confidence >= pricer.min_confidence
        /\ prices[order.buy_token].confidence >= pricer.min_confidence
        /\ order.sell_amount * prices[order.sell_token].price
               >= order.buy_amount * prices[order.buy_token].price

\* C17: validate_prices succeeds iff every order has both tokens priced, both
\* with confidence >= min_confidence, and sell_amount * sell_price >=
\* buy_amount * buy_price; otherwise it fails with a message, about an order
\* that is not satisfied.
C17_ValidatePricesIff ==
    ppc = "validated" =>
        /\ validation.ok <=> \A k \in DOMAIN price_orders : PricesSatisfy(k)
        /\ validation.ok => validation.error = "none"
        /\ ~validation.ok =>
              /\ validation.error \in
                     { "Missing price for sell token", "Missing price for buy token",
                       "Low confidence for sell token", "Low confidence for buy token",
                       "Clearing prices don't satisfy order" }
              /\ validation.order \in DOMAIN price_orders
              /\ ~PricesSatisfy(validation.order)

C17_Witness ==
    /\ ppc = "validated"
    /\ validation.ok
    /\ Len(price_orders) = 2
    /\ price_orders[1].sell_token # price_orders[2].sell_token

\* the failures of C17 that are reached: a missing price and a low confidence
\* of a buy token whose sell token passes, and a violated limit after an
\* order that is satisfied
C17_MissingReached ==
    ppc = "validated" /\ price_source = "supplied"
        /\ validation.error = "Missing price for buy token"

C17_LowConfidenceReached ==
    ppc = "validated" /\ validation.error = "Low confidence for buy token"

C17_LimitReached ==
    ppc = "validated" /\ validation.order = 2
        /\ validation.error = "Clearing prices don't satisfy order"

\* C18: the prices the default engine computes for a list of orders pass
\* validate_prices against the same orders.
C18_ComputedPricesValidate ==
    (ppc = "validated" /\ price_source = "computed" /\ pricer = DefaultPricer) =>
        validation.ok

\* the gas formula of the specification
GasFormula(s) ==
    21000 + 50000 * Len(s.trades) + 100000 * Len(s.interactions)
          + 150000 * Len(s.post_hooks)

\* C19: estimate_gas of a plan is 21000 + 50000 |trades| + 100000
\* |interactions| + 150000 |post_hooks|; the gas_cost of a Solution that solve
\* returns, and of one scored over a plan, is that value for its settlement;
\* adding a trade, an interaction or a post-hook makes the estimate larger.
C19_GasEstimate ==
    /\ estimate_gas(plan) = GasFormula(plan)
    /\ gas_before > 0 => estimate_gas(plan) > gas_before
    /\ (scored # NoSolution /\ scored.gas_cost # 100000) =>
          scored.gas_cost = GasFormula(scored.settlement)
    /\ Returned => result.solution.gas_cost = GasFormula(result.solution.settlement)

C19_Witness ==
    /\ Len(plan.trades) = 1 /\ Len(plan.interactions) = 1 /\ Len(plan.post_hooks) = 1
    /\ gas_before = 171000
    /\ scored.settlement = plan
    /\ scored.gas_cost = 321000

\* the Solutions of solve that C19 speaks of are reached
C19_SolveReached == Returned /\ result.solution.gas_cost = 121000

\* C20: calculate_score sets score = surplus - gas_cost * 10^-9 and
\* is_profitable(t) holds iff score >= t; with surplus 0.5 and gas_cost 100000
\* the score is 0.4999, admitted at threshold 0 and rejected at threshold 1.
C20_ScoreAndGate ==
    scored # NoSolution =>
        /\ scored.score * 1000 = scored.surplus * 1000 - scored.gas_cost
        /\ admitted <=> scored.score >= threshold
        /\ (scored.surplus = Micro \div 2 /\ scored.gas_cost = 100000) =>
              /\ scored.score = 499900
              /\ threshold = 0 => admitted
              /\ threshold = Micro => ~admitted

C20_Witness ==
    /\ scored.surplus = Micro \div 2
    /\ scored.gas_cost = 100000
    /\ threshold = 0
    /\ admitted

\* the rejection of C20 is reached
C20_RejectedReached ==
    /\ scored.surplus = Micro \div 2
    /\ scored.gas_cost = 100000
    /\ threshold = Micro
    /\ ~admitted

\* ---------------------------------------------------------------------- C21
OrderWellFormed(order) ==
    /\ order.sell_amount > 0
    /\ order.buy_amount > 0
    /\ order.sell_token # order.buy_token
    /\ order.valid_to > 0

BothChains(order) == order.source_chain # None /\ order.destination_chain # None

\* C21: Order::validate returns Ok iff sell_amount > 0, buy_amount > 0, the
\* tokens differ, valid_to > 0 and an order with both chains set names a bridge
\* provider; any other order gets an error, and an order with at most one chain
\* set needs no bridge provider.
C21_OrderValidateIff ==
    checked # None =>
        LET order == checked[1].order
            verdict == checked[1].result
        IN  /\ (verdict = "Ok") <=>
                  /\ OrderWellFormed(order)
                  /\ BothChains(order) => order.bridge_provider # None
            /\ (OrderWellFormed(order) /\ ~BothChains(order)) => verdict = "Ok"
            /\ (OrderWellFormed(order) /\ BothChains(order)
                    /\ order.bridge_provider = None)
                  => verdict = "Cross-chain orders must specify a bridge provider"
            /\ order.sell_amount = 0 => verdict = "Sell amount must be greater than zero"
            /\ (order.sell_amount > 0 /\ order.buy_amount > 0
                    /\ order.sell_token # order.buy_token /\ order.valid_to = 0)
                  => verdict = "Valid_to timestamp must be set"

\* a cross-chain order without a bridge provider has been rejected
C21_Witness ==
    /\ checked # None
    /\ OrderWellFormed(checked[1].order)
    /\ BothChains(checked[1].order)
    /\ checked[1].order.bridge_provider = None
    /\ checked[1].result # "Ok"

\* an order with only its source chain set and no bridge provider has passed
C21_OneChainReached ==
    /\ checked # None
    /\ checked[1].order.source_chain # None
    /\ checked[1].order.destination_chain = None
    /\ checked[1].order.bridge_provider = None
    /\ checked[1].result = "Ok"

\* a cross-chain order with a bridge provider has passed
C21_BridgedReached ==
    /\ checked # None
    /\ BothChains(checked[1].order)
    /\ checked[1].order.bridge_provider # None
    /\ checked[1].result = "Ok"

\* ---------------------------------------------------------------------- C22
\* C22: checked_add and checked_sub return no value for different decimals,
\* overflow or underflow, and (a + b) - b = a whenever a + b is defined;
\* checked_mul returns no value on overflow; checked_div returns no value for
\* divisor 0 and the floor quotient otherwise, so (a * s) / s = a when a * s
\* does not overflow.
C22_TokenAmountArithmetic ==
    arith # None =>
        LET r == arith[1]
            same == r.a.decimals = r.b.decimals
        IN  /\ (r.sum = None) <=> (~same \/ r.a.raw + r.b.raw > U256Max)
            /\ r.sum # None => r.sum[1] = [raw |-> r.a.raw + r.b.raw,
                                           decimals |-> r.a.decimals]
            /\ r.sum # None => r.back = Some(r.a)
            /\ (r.diff = None) <=> (~same \/ r.b.raw > r.a.raw)
            /\ r.diff # None => r.diff[1] = [raw |-> r.a.raw - r.b.raw,
                                             decimals |-> r.a.decimals]
            /\ (r.mul = None) <=> (r.a.raw * r.s > U256Max)
            /\ r.mul # None => r.mul[1] = [raw |-> r.a.raw * r.s,
                                           decimals |-> r.a.decimals]
            /\ (r.div = None) <=> (r.s = 0)
            /\ r.div # None =>
                  /\ r.div[1].decimals = r.a.decimals
                  /\ r.div[1].raw * r.s <= r.a.raw
                  /\ r.a.raw < (r.div[1].raw + 1) * r.s
            /\ (r.mul # None /\ r.s # 0) => r.mul_div = Some(r.a)

\* a sum at the top of the word has been taken back to its first operand
C22_Witness ==
    /\ arith # None
    /\ arith[1].a.raw > 0
    /\ arith[1].b.raw > 0
    /\ arith[1].sum # None
    /\ arith[1].sum[1].raw = U256Max
    /\ arith[1].back = Some(arith[1].a)

\* an addition of equal decimals has overflowed
C22_OverflowReached ==
    /\ arith # None
    /\ arith[1].a.decimals = arith[1].b.decimals
    /\ arith[1].sum = None

\* a product has been divided back with a scalar above one
C22_MulDivReached ==
    /\ arith # None
    /\ arith[1].s > 1
    /\ arith[1].a.raw > 0
    /\ arith[1].mul # None
    /\ arith[1].mul_div = Some(arith[1].a)

\* a division has rounded down
C22_FloorReached ==
    /\ arith # None
    /\ arith[1].div # None
    /\ arith[1].div[1].raw * arith[1].s < arith[1].a.raw

\* ---------------------------------------------------------------------- C23
\* C23: solve calls in flight on one engine do not interfere: the engine stays
\* as every call found it, and every call that has returned holds the batch it
\* was given and the result of running it alone with the same clock reading.
C23_ConcurrentSolveIndependent ==
    \A c \in DOMAIN calls :
        /\ shared = calls[c].entered_with
        /\ calls[c].pc = "done" =>
              calls[c] = solve_alone(calls[c].entered_with, calls[c].orders, calls[c].now)

\* a call that entered second has returned a Solution while the first call
\* is still between its stages
C23_Witness ==
    /\ Len(calls) >= 2
    /\ calls[1].pc = "matched"
    /\ calls[2].pc = "done"
    /\ calls[2].result.kind = "solution"

\* two calls on different batches have returned different results
C23_BothReturnedReached ==
    /\ Len(calls) >= 2
    /\ calls[1].pc = "done"
    /\ calls[2].pc = "done"
    /\ calls[1].result.kind = "solution"
    /\ calls[2].result.kind = "none"
    /\ calls[2].valid_orders # << >>

\* ---------------------------------------------------------------------- C24
\* the amount that enters hop i of the route
RECURSIVE HopAmount(_, _, _)
HopAmount(r, amount_in, i) ==
    IF i = 1 THEN amount_in
    ELSE calculate_output(r.pools[i - 1], r.path[i - 1], HopAmount(r, amount_in, i - 1))

\* the impacts of the hops 1..i, each 100 * amount / reserve_in capped at 100
RECURSIVE ImpactSum(_, _, _)
ImpactSum(r, amount_in, i) ==
    IF i = 0 THEN Ratio(0, 1)
    ELSE RatioAdd(ImpactSum(r, amount_in, i - 1),
                  LET a == HopAmount(r, amount_in, i)
                      reserve == reserve_in_of(r.pools[i], r.path[i])
                  IN  IF reserve = 0 \/ a * 100 >= 100 * reserve THEN Ratio(100, 1)
                      ELSE Ratio(a * 100, reserve))

RECURSIVE GasSum(_, _)
GasSum(route_pools, i) ==
    IF i = 0 THEN 0 ELSE GasSum(route_pools, i - 1) + route_pools[i].gas_cost

RatioEq(p, q) == p.num * q.den = q.num * p.den

\* C24: a route returned by find_best_route has one more token than pools,
\* leads from token_in to token_out without repeating a token, uses for hop i
\* a pool of exactly the tokens path[i] and path[i+1], carries the sum of its
\* pools' gas costs and of its hops' price impacts, stays within
\* max_price_impact and has a non-zero output.
C24_RouteWellFormed ==
    Routed =>
        LET r == route[1]
            n == Len(r.pools)
        IN  /\ n >= 1
            /\ Len(r.path) = n + 1
            /\ r.path[1] = query.token_in
            /\ r.path[n + 1] = query.token_out
            /\ \A i, j \in 1..(n + 1) : i # j => r.path[i] # r.path[j]
            /\ \A i \in 1..n :
                  /\ Connects(r.pools[i], r.path[i], r.path[i + 1])
                  /\ \E k \in 1..Len(pools) : pools[k] = r.pools[i]
            /\ r.gas_cost = GasSum(r.pools, n)
            /\ RatioEq(r.price_impact, ImpactSum(r, query.amount_in, n))
            /\ Leq(r.price_impact, router.max_price_impact)
            /\ r.output_amount # 0

\* a route over two pools has been returned
C24_Witness ==
    /\ Routed
    /\ Len(route[1].pools) = 2
    /\ Len(route[1].path) = 3
    /\ route[1].price_impact.num > 0

\* a route over one pool has been returned by an engine with the wider cap
C24_DirectReached ==
    /\ Routed
    /\ Len(route[1].pools) = 1
    /\ Lt(Ratio(5, 1), route[1].price_impact)

\* ---------------------------------------------------------------------- C25
\* C25: in every Solution solve returns, each trade references an order of the
\* filtered batch and carries that order's own sell_amount, buy_amount and
\* fee_amount, and Solution.orders lists the trades' order ids in trade order.
C25_TradesAreFullFills ==
    Returned =>
        /\ \A k \in DOMAIN Trades :
              \E i \in DOMAIN valid_orders :
                  /\ valid_orders[i].id = Trades[k].order_id
                  /\ valid_orders[i] = orders[Trades[k].order_id]
                  /\ Trades[k].executed_sell_amount = valid_orders[i].sell_amount
                  /\ Trades[k].executed_buy_amount = valid_orders[i].buy_amount
                  /\ Trades[k].fee = valid_orders[i].fee_amount
        /\ result.solution.orders = [k \in DOMAIN Trades |-> Trades[k].order_id]

\* a Solution has been returned with a trade that sells more than it buys,
\* after the filter dropped an order
C25_Witness ==
    /\ Returned
    /\ Len(valid_orders) < Len(orders)
    /\ \E k \in DOMAIN Trades :
          Trades[k].executed_sell_amount > Trades[k].executed_buy_amount

\* ---------------------------------------------------------------------- C26
\* the score solve gives the settlement of the call
CallScoreOf(call) ==
    calculate_score(
      [ orders |-> << >>, settlement |-> call.settlement,
        gas_cost |-> estimate_gas(call.settlement),
        surplus |-> calculate_surplus(call.valid_orders, call.settlement),
        score |-> 0 ]).score

SurplusZero(call) ==
    /\ calculate_surplus(call.valid_orders, call.settlement) = 0
    /\ call.matches # << >> =>
          /\ CallScoreOf(call) = 0 - (estimate_gas(call.settlement) \div 1000)
          /\ CallScoreOf(call) < 0
    /\ call.result.kind = "solution" => call.entered_with.config.min_profit_threshold < 0
    /\ call.entered_with.config.min_profit_threshold >= 0 => call.result.kind = "none"

DistinctIds(os) == \A i, j \in DOMAIN os : i # j => os[i].id # os[j].id

C26_NegativeThresholdReached ==
    /\ calls # << >>
    /\ DistinctIds(calls[1].orders)
    /\ calls[1].entered_with.config.min_profit_threshold < 0
    /\ calls[1].result.kind = "solution"

\* ---------------------------------------------------------------------- C27
\* C27: solve never returns an error: a settlement is built only for at least
\* one match, every match adds two trades, so the settlement validates and
\* every outcome is a Solution or 'no solution'.
C27_SolveNeverFails ==
    /\ pc \in {"built", "done"} /\ matches # << >> =>
          /\ Len(settlement.trades) = 2 * Len(matches)
          /\ validate(settlement)
    /\ pc = "matched" => matches # << >>
    /\ pc = "done" => result.kind \in {"none", "solution"}

\* a settlement has passed validation and has been turned down as
\* unprofitable
C27_Witness ==
    /\ pc = "done"
    /\ Len(settlement.trades) >= 2
    /\ result.kind = "none"

\* ---------------------------------------------------------------------- C28
\* the configurations that differ from cfg at most in enable_amm_routing,
\* enable_cross_chain, max_gas_price and timeout_ms
OptionVariants(cfg) ==
    { [cfg EXCEPT !.enable_amm_routing = amm, !.enable_cross_chain = cross,
                  !.max_gas_price = gas, !.timeout_ms = budget] :
        amm \in BOOLEAN, cross \in BOOLEAN, gas \in {0, 100}, budget \in {0, 5000} }

\* the order at position i of the filtered batch is part of a match
Matched(i) == \E k \in DOMAIN matches : matches[k][1] = i \/ matches[k][2] = i

\* C28: the result of solve is the same for every setting of
\* enable_amm_routing, enable_cross_chain, max_gas_price and timeout_ms; the
\* settlement has no interactions and no post-hooks; a Solution holds no
\* unmatched order; with enable_cow_matching off solve returns no solution.
C28_ResultIgnoresUnusedOptions ==
    pc = "done" =>
        /\ \A cfg \in OptionVariants(config) :
              solve_alone(NewEngine(cfg), orders, now).result = result
        /\ settlement.interactions = << >>
        /\ settlement.post_hooks = << >>
        /\ result.solution.settlement.interactions = << >>
        /\ result.solution.settlement.post_hooks = << >>
        /\ Returned =>
              \A i \in DOMAIN valid_orders :
                  (\E k \in DOMAIN Trades : Trades[k].order_id = valid_orders[i].id)
                      => Matched(i)
        /\ ~config.enable_cow_matching => result.kind = "none"

\* a Solution has been returned that leaves a live order of the batch out
C28_Witness ==
    /\ Returned
    /\ \E i \in DOMAIN valid_orders : ~Matched(i)
    /\ config.enable_amm_routing

\* an engine with matching switched off has been given a matching pair
C28_MatchingOffReached ==
    /\ pc = "done"
    /\ ~config.enable_cow_matching
    /\ find_cow_matches(DefaultConfig, valid_orders) # << >>

\* ---------------------------------------------------------------------- C29
\* C29: for every batch of Open orders with non-zero amounts of the full
\* 256-bit range, solve and find_matches complete with a result: no conversion
\* of an amount of 2^128 or more to 128 bits is reached.
C29_FullRangeCompletes ==
    wide # None => wide[1].outcome.kind # "aborted"

\* ---------------------------------------------------------------------- C30
\* C30: for every amount_in, non-zero reserves and fee_bps < 10000 the routing
\* engine's constant-product output equals the value that calculate_amm_output
\* returns for the same arguments.
C30_ConstantProductOutputsAgree ==
    (quote # << >> /\ quote[1].reserve_in > 0 /\ quote[1].reserve_out > 0
        /\ quote[1].fee_bps < 10000)
      => quote[1].math_out = << quote[1].routing_out >>

====
